---- MODULE Spec2Model ----
(***************************************************************************)
(* Scan pipeline of the swing-trade research agent: the market-data cache, *)
(* the acquisition coordinator (retry, backoff, fallback, rate limit) and  *)
(* the LangGraph orchestration of the stages.                              *)
(*                                                                         *)
(* Time is counted in ticks of 1/requests_per_second second, so that the   *)
(* rate-limit interval is one tick and every configured duration is a      *)
(* whole number of ticks.  Prices are fixed-point numbers with eleven      *)
(* decimal digits (one unit = 1e-11), one digit more than DataFrame.to_json*)
(* keeps.  The risk engine computes with exact amounts, counted in         *)
(* hundredths of the price unit; the account size is counted in price      *)
(* units.                                                                  *)
(***************************************************************************)
EXTENDS Integers, Sequences, FiniteSets, TLC

VARIABLES
    now,        \* wall clock, in ticks
    nticks,     \* number of idle periods the clock has been advanced by
    cache,      \* table market_data_cache: key -> <<row>>
    fpc,        \* position inside fetch_market_data
    fargs,      \* arguments of the current fetch_market_data call
    attempt,    \* loop variable of the retry loops
    fret,       \* value returned by the last fetch_market_data call
    log,        \* events of the current outermost operation
    ncalls,     \* number of direct calls made so far
    op,         \* the direct cache-store call that has just returned
    req,        \* what the caller asks for: one fetch, or a scan
    pc,         \* node of the graph that runs next
    st,         \* AgentState of the run
    trace,      \* nodes the run has been routed to, in order
    failed,     \* nodes whose handler caught a failure, in order
    bidx,       \* fetch_multiple_symbols: symbols done
    results,    \* fetch_multiple_symbols: symbol -> (df, source)
    agent_runs, \* table agent_runs
    arg,        \* argument of the function that is called on its own
    ret         \* what the calls made with arg have returned, and when

fetchvars == <<fpc, fargs, attempt, fret, log>>
pipevars == <<pc, st, trace, failed, bidx, results, agent_runs>>
purevars == <<arg, ret>>

\* ------------------------------------------------------------------------
\* Configuration (src/config.py)
\* ------------------------------------------------------------------------
cache_ttl_daily == 86400
cache_ttl_weekly == 604800
max_retries == 3
retry_delay == 2
retry_backoff == 2
requests_per_second == 2
min_confidence_for_alert == 80
\* SETUP_RULES; ratios and percentages are counted in tenths
rsi_min == 55
rsi_max == 70
min_atr_percent == 10
volume_spike_multiplier == 15
\* RISK_CONFIG
default_account_size == 1000000
risk_per_trade_percent == 2
max_position_percent == 20
stop_loss_atr_multiplier == 2
stop_loss_min_percent == 2
stop_loss_max_percent == 8
target_ratios == <<2, 3>>
entry_range_percent == 1

\* ------------------------------------------------------------------------
\* Bounds of the model
\* ------------------------------------------------------------------------
MaxTicks == 2
MaxCalls == 2
MaxPuts == 3
MaxFaults == 2

Symbols == {"A.NS", "B.NS"}
FetchSymbols == {"A.NS", "C.NS"}
RerunSymbols == {"A.NS"}
Timeframes == {"1d", "1wk"}
BacktestDates == {0}

\* Series: number of bars, latest close (1e-11 units), the indicator
\* columns the frame has, and the values of the latest bar in those columns
\* (what the computation yields for this price history; NaN where it is
\* undefined).  atr is ATR_14 in hundredths of the price unit, atr_percent
\* and volume_ratio are counted in tenths, rsi in points.
\* recent_high is Rolling_High_20 of the bar before the latest;
\* sig holds the type rules whose conditions on the price bars are met;
\* dated tells whether the index of the frame holds timestamps, and
\* last_date is the day of the latest bar.
NaN == 0 - 1073741824

ColumnOrder == <<"EMA_20", "EMA_50", "EMA_200", "RSI_14", "MACD_histogram",
                 "ATR_14", "Volume_Ratio", "ATR_Percent", "Higher_High",
                 "Higher_Low", "Rolling_High_20">>

SeriesSet ==
    { [bars |-> 50, close |-> 1237, dated |-> TRUE, last_date |-> 0,
       cols |-> {}, ema_20 |-> 1210, ema_50 |-> 1200, ema_200 |-> 1100,
       rsi |-> 60, macd_histogram |-> 1, atr |-> 2460, atr_percent |-> 20,
       volume_ratio |-> 16, recent_high |-> 1220,
       sig |-> {"CONSOLIDATION"}],
      [bars |-> 49, close |-> 1230, dated |-> TRUE, last_date |-> 0,
       cols |-> {}, ema_20 |-> 1210, ema_50 |-> 1200, ema_200 |-> 1100,
       rsi |-> 60, macd_histogram |-> 1, atr |-> 2460, atr_percent |-> 20,
       volume_ratio |-> 16, recent_high |-> 1220, sig |-> {}] }

EmptyFrame ==
    [bars |-> 0, close |-> 0, dated |-> TRUE, last_date |-> 0, cols |-> {},
     ema_20 |-> NaN, ema_50 |-> NaN, ema_200 |-> NaN, rsi |-> NaN,
     macd_histogram |-> NaN, atr |-> NaN, atr_percent |-> NaN, volume_ratio |-> NaN,
     recent_high |-> NaN, sig |-> {}]

\* rows that carry no price: every value of the Close column is NaN
UnpricedFrame == [EmptyFrame EXCEPT !.bars = 5, !.close = NaN]

\* comparisons of floats: false as soon as one side is NaN
Lt(a, b) == a # NaN /\ b # NaN /\ a < b
Le(a, b) == a # NaN /\ b # NaN /\ a <= b
Gt(a, b) == Lt(b, a)

\* Optional values: None is the empty sequence, Some(x) a one-element one.
None == <<>>
Some(x) == <<x>>

\* Body of the value, which is computed once
Let(value, Body(_)) == CHOOSE r \in {Body(x) : x \in {value}} : TRUE

\* ------------------------------------------------------------------------
\* Time
\* ------------------------------------------------------------------------
Ticks(seconds) == seconds * requests_per_second

\* date.today(): the day the clock is in
Today == now \div Ticks(86400)

RECURSIVE Pow(_, _)
Pow(b, e) == IF e = 0 THEN 1 ELSE b * Pow(b, e - 1)

\* ------------------------------------------------------------------------
\* Cache store (src/agent/data_fetcher.py)
\* ------------------------------------------------------------------------
Key(symbol, timeframe, target_date) ==
    [symbol |-> symbol, timeframe |-> timeframe, fetch_date |-> target_date]

\* ujson keeps double_precision = 10 decimals of a double: the eleventh
\* digit is rounded away (half goes up when the kept part is 0 or odd).
\* NaN is written as null and read back as a missing value.
RoundDouble(v) ==
    LET frac == v \div 10
        diff == v % 10
    IN  IF v = NaN THEN NaN
        ELSE IF diff > 5 \/ (diff = 5 /\ (frac = 0 \/ frac % 2 = 1))
        THEN (frac + 1) * 10
        ELSE frac * 10

\* df_copy.to_json(orient='records', date_format='iso'): the stored text,
\* as the frame it spells and whether it still parses
to_json(df) == [ok |-> TRUE, val |-> [df EXCEPT !.close = RoundDouble(@)]]

from_json_unchecked(data) == Some(data.val)

\* json.loads + pd.DataFrame; text that does not parse raises, and the
\* handler of get_cached_data turns that into None
from_json(data) == IF data.ok THEN Some(data.val) ELSE None

CacheRowLive_inclusive(row, cutoff) == row.cached_at >= cutoff

CacheRowLive(row, cutoff) == row.cached_at > cutoff

get_cached_data(symbol, timeframe, target_date, ttl_seconds, fault) ==
    LET k == Key(symbol, timeframe, target_date)
        cutoff == now - Ticks(ttl_seconds)
    IN  IF fault THEN None
        ELSE IF k \in DOMAIN cache /\ CacheRowLive(cache[k], cutoff)
             THEN from_json(cache[k].data)
             ELSE None

cache_data_per_series(symbol, timeframe, target_date, df, fault) ==
    LET k == Key(symbol, timeframe, target_date)
        row == [data |-> to_json(df), cached_at |-> now, orig |-> df]
        kept == {j \in DOMAIN cache :
                    j.symbol # symbol \/ j.timeframe # timeframe}
    IN  IF fault THEN cache
        ELSE (k :> row) @@ [j \in kept |-> cache[j]]

\* the table after cache_data(symbol, timeframe, target_date, df); a row
\* also remembers the frame it was made from (orig, not stored by the code)
cache_data(symbol, timeframe, target_date, df, fault) ==
    LET k == Key(symbol, timeframe, target_date)
        row == [data |-> to_json(df), cached_at |-> now, orig |-> df]
    IN  IF fault THEN cache
        ELSE (k :> row) @@ cache

\* ------------------------------------------------------------------------
\* Source adapters (src/agent/data_fetcher.py)
\* ------------------------------------------------------------------------
\* What the vendor library does on one call: raises, returns None, returns
\* an empty frame, or returns daily bars.
AdapterRaw == {"raise", "none", "empty"}
\* the price histories the vendors hold for a symbol: those of A.NS meet
\* the consolidation rule on the bars, those of the other symbols do not;
\* the rows of C.NS carry no price
VendorSeries(symbol) ==
    IF symbol = "A.NS" THEN SeriesSet
    ELSE IF symbol = "C.NS" THEN {UnpricedFrame}
    ELSE {[df EXCEPT !.sig = {}] : df \in SeriesSet}

VendorOutcomes(symbol) ==
    [kind : AdapterRaw, df : {EmptyFrame}]
        \cup [kind : {"frame"}, df : VendorSeries(symbol)]

\* df.resample('W').agg(...).dropna(): one bar per week of five sessions;
\* a week whose aggregate has a NaN is dropped
resample_weekly(df) ==
    IF df.close = NaN THEN [df EXCEPT !.bars = 0]
    ELSE [df EXCEPT !.bars = (@ + 4) \div 5]

fetch_with_jugaad(raw, timeframe) ==
    IF raw.kind # "frame" \/ raw.df.bars = 0 THEN None
    ELSE IF timeframe = "1wk" THEN Some(resample_weekly(raw.df))
    ELSE Some(raw.df)

fetch_with_yfinance(raw, timeframe) ==
    IF raw.kind # "frame" \/ raw.df.bars = 0 THEN None
    ELSE Some(raw.df)

\* ------------------------------------------------------------------------
\* fetch_market_data (src/agent/data_fetcher.py)
\* ------------------------------------------------------------------------
\* An entry of the event log: what was done (get, attempt, sleep, put,
\* rate), on which source, in which loop iteration, for how long, whether
\* it succeeded and what it yielded.
Ev(ev, src, n, d, ok) ==
    [ev |-> ev, src |-> src, n |-> n, d |-> d, ok |-> ok,
     t |-> now, sym |-> "", val |-> None]

TtlFor_swapped(timeframe) ==
    IF timeframe = "1d" THEN cache_ttl_weekly ELSE cache_ttl_daily

TtlFor(timeframe) ==
    IF timeframe = "1d" THEN cache_ttl_daily ELSE cache_ttl_weekly

SleepTime_flat(n) == Ticks(retry_delay)

\* sleep_time = retry_delay * (backoff ** attempt), in ticks
SleepTime(n) == Ticks(retry_delay * Pow(retry_backoff, n))

SleepsAfter_inclusive(n) == n <= max_retries - 1

\* if attempt < max_retries - 1: sleep
SleepsAfter(n) == n < max_retries - 1

EnterFetch_always_reads(symbol, timeframe, date_arg, use_cache, rfault, prefix) ==
    LET target_date == IF date_arg = None THEN Today ELSE date_arg[1]
        k == Key(symbol, timeframe, target_date)
        cached_df == get_cached_data(symbol, timeframe, target_date,
                                     TtlFor(timeframe), rfault)
        hit == cached_df # None
        evs == IF use_cache
               THEN <<[Ev("get", "cache", 0, 0, hit)
                         EXCEPT !.sym = symbol, !.val = cached_df]>>
               ELSE <<>>
    IN  /\ fargs' = [symbol |-> symbol, timeframe |-> timeframe,
                     target_date |-> target_date, use_cache |-> use_cache,
                     rfault |-> rfault, t0 |-> now,
                     row0 |-> IF k \in DOMAIN cache THEN Some(cache[k])
                              ELSE None]
        /\ attempt' = 0
        /\ log' = prefix \o evs
        /\ IF hit
           THEN /\ fret' = [df |-> cached_df, source |-> "cache"]
                /\ fpc' = "done"
           ELSE /\ fret' = [df |-> None, source |-> "none"]
                /\ fpc' = "jugaad"

\* Entry of fetch_market_data up to and including the cache check
\* (lines 271-284): either returns the cached frame or enters the
\* primary retry loop.
EnterFetch(symbol, timeframe, date_arg, use_cache, rfault, prefix) ==
    LET target_date == IF date_arg = None THEN Today ELSE date_arg[1]
        k == Key(symbol, timeframe, target_date)
        cached_df == get_cached_data(symbol, timeframe, target_date,
                                     TtlFor(timeframe), rfault)
        hit == use_cache /\ cached_df # None
        evs == IF use_cache
               THEN <<[Ev("get", "cache", 0, 0, hit)
                         EXCEPT !.sym = symbol, !.val = cached_df]>>
               ELSE <<>>
    IN  /\ fargs' = [symbol |-> symbol, timeframe |-> timeframe,
                     target_date |-> target_date, use_cache |-> use_cache,
                     rfault |-> rfault, t0 |-> now,
                     row0 |-> IF k \in DOMAIN cache THEN Some(cache[k])
                              ELSE None]
        /\ attempt' = 0
        /\ log' = prefix \o evs
        /\ IF hit
           THEN /\ fret' = [df |-> cached_df, source |-> "cache"]
                /\ fpc' = "done"
           ELSE /\ fret' = [df |-> None, source |-> "none"]
                /\ fpc' = "jugaad"

\* One iteration of a retry loop: the adapter call, then either the
\* write-through and return, or the backoff sleep, or the loop's exit.
RetryIteration(src, df, wfault, exitpc) ==
    LET evA == [Ev("attempt", src, attempt, 0, df # None)
                  EXCEPT !.sym = fargs.symbol, !.val = df]
    IN  IF df # None
        THEN /\ cache' = cache_data(fargs.symbol, fargs.timeframe,
                                    fargs.target_date, df[1], wfault)
             /\ fret' = [df |-> df, source |-> src]
             /\ fpc' = "done"
             /\ log' = log \o <<evA, [Ev("put", src, attempt, 0, ~wfault)
                                        EXCEPT !.sym = fargs.symbol]>>
             /\ UNCHANGED <<now, attempt>>
        ELSE IF SleepsAfter(attempt)
        THEN /\ now' = now + SleepTime(attempt)
             /\ attempt' = attempt + 1
             /\ log' = log \o <<evA, [Ev("sleep", src, attempt,
                                           SleepTime(attempt), TRUE)
                                        EXCEPT !.sym = fargs.symbol]>>
             /\ UNCHANGED <<cache, fret, fpc>>
        ELSE /\ attempt' = 0
             /\ fpc' = exitpc
             /\ fret' = [df |-> None, source |-> "none"]
             /\ log' = log \o <<evA>>
             /\ UNCHANGED <<now, cache>>

\* for attempt in range(max_retries): fetch_with_jugaad ... (lines 291-300)
TryJugaad ==
    /\ fpc = "jugaad"
    /\ \E raw \in VendorOutcomes(fargs.symbol), wfault \in BOOLEAN :
         RetryIteration("jugaad", fetch_with_jugaad(raw, fargs.timeframe),
                        wfault, "yfinance")
    /\ UNCHANGED <<purevars, fargs, nticks, ncalls, op, req, pipevars>>

\* for attempt in range(max_retries): fetch_with_yfinance ... (lines 304-315)
TryYfinance ==
    /\ fpc = "yfinance"
    /\ \E raw \in VendorOutcomes(fargs.symbol), wfault \in BOOLEAN :
         RetryIteration("yfinance", fetch_with_yfinance(raw, fargs.timeframe),
                        wfault, "done")
    /\ UNCHANGED <<purevars, fargs, nticks, ncalls, op, req, pipevars>>

\* A caller invokes fetch_market_data directly.
CallFetch ==
    /\ pc = "idle"
    /\ fpc = "idle"
    /\ ncalls < MaxCalls
    /\ \E use_cache \in BOOLEAN, rfault \in BOOLEAN :
         EnterFetch(req.symbol, req.timeframe, req.date_arg, use_cache,
                    rfault, <<>>)
    /\ ncalls' = ncalls + 1
    /\ UNCHANGED <<purevars, now, nticks, cache, op, req, pipevars>>

NoArgs == [symbol |-> "", timeframe |-> "", target_date |-> 0,
           use_cache |-> FALSE, rfault |-> FALSE, t0 |-> 0, row0 |-> None]
NoRet == [df |-> None, source |-> "none"]
NoReq == [symbol |-> "", timeframe |-> "", date_arg |-> None,
          universe |-> <<>>]

\* The direct caller takes the returned pair.
Return ==
    /\ pc = "idle"
    /\ fpc = "done"
    /\ fpc' = "idle"
    /\ fargs' = NoArgs
    /\ fret' = NoRet
    /\ log' = <<>>
    /\ attempt' = 0
    /\ UNCHANGED <<purevars, now, nticks, cache, ncalls, op, req, pipevars>>

\* ------------------------------------------------------------------------
\* Direct use of the cache store
\* ------------------------------------------------------------------------
TtlSet == {0, 1}
StoreKeys == {Key(s, "1d", d) : s \in Symbols, d \in BacktestDates}
                \cup {Key("A.NS", "1d", 1)}
NoOp == [kind |-> "none", key |-> Key("", "", 0), ttl |-> 0,
         df |-> EmptyFrame, fault |-> FALSE, had |-> FALSE, res |-> None]

Get ==
    /\ fpc = "idle"
    /\ \E k \in StoreKeys, ttl \in TtlSet, fault \in BOOLEAN :
         op' = [NoOp EXCEPT !.kind = "get", !.key = k, !.ttl = ttl,
                            !.fault = fault,
                            !.res = get_cached_data(k.symbol, k.timeframe,
                                        k.fetch_date, ttl, fault)]
    /\ UNCHANGED purevars
    /\ UNCHANGED <<now, nticks, cache, ncalls, fetchvars, req, pipevars>>

Put ==
    /\ fpc = "idle"
    /\ ncalls < MaxPuts
    /\ \E k \in StoreKeys, df \in SeriesSet, fault \in BOOLEAN :
         /\ cache' = cache_data(k.symbol, k.timeframe, k.fetch_date, df, fault)
         /\ op' = [NoOp EXCEPT !.kind = "put", !.key = k, !.df = df,
                               !.fault = fault, !.had = k \in DOMAIN cache]
    /\ ncalls' = ncalls + 1
    /\ UNCHANGED <<purevars, now, nticks, fetchvars, req, pipevars>>

\* ------------------------------------------------------------------------
\* Environment
\* ------------------------------------------------------------------------
\* Time passes while nothing is being fetched; the clock starts with the
\* first call.
TickBy(durations) ==
    /\ fpc = "idle"
    /\ ncalls > 0
    /\ nticks < MaxTicks
    /\ \E d \in durations : now' = now + d
    /\ nticks' = nticks + 1
    /\ op' = NoOp
    /\ UNCHANGED <<purevars, cache, ncalls, fetchvars, req, pipevars>>

\* one tick, or one tick short of a time-to-live
Tick == TickBy({1, Ticks(cache_ttl_daily) - 1, Ticks(cache_ttl_weekly) - 1})

\* half a second, or a second
ShortTick == TickBy({1, Ticks(1)})

\* A stored row is damaged on disk: its text no longer parses.
Corrupt ==
    /\ fpc = "idle"
    /\ \E k \in DOMAIN cache :
         /\ cache[k].data.ok
         /\ cache' = [cache EXCEPT ![k].data.ok = FALSE]
    /\ op' = NoOp
    /\ UNCHANGED <<purevars, now, nticks, ncalls, fetchvars, req, pipevars>>

\* ------------------------------------------------------------------------
\* Run context (src/graph.py, AgentState)
\* ------------------------------------------------------------------------
\* keys holds the fields that have been assigned; the other fields of the
\* record are placeholders.
NoPersistence == [success |-> FALSE, setups_saved |-> 0,
                  evaluations_saved |-> 0]
NoState ==
    [keys |-> {}, scan_id |-> 0, scan_timestamp |-> 0, scan_type |-> "",
     scan_date |-> None, universe |-> <<>>, market_data |-> << >>,
     indicators |-> << >>, detected_setups |-> <<>>,
     evaluated_setups |-> <<>>, trade_candidates |-> <<>>,
     errors |-> <<>>, persistence |-> NoPersistence,
     notifications |-> <<>>, start_time |-> 0, duration_seconds |-> 0]

\* the handlers of the nodes may catch at most MaxFaults failures in a run
CanFail == Len(failed) < MaxFaults

\* except Exception of a node: the message is appended to the error list
\* and the node's field gets its empty value
except_handler_overwrite(s, field, message) ==
    [s EXCEPT !.keys = @ \cup {field}, ![field] = <<>>,
              !.errors = <<message>>]

except_handler(s, field, message) ==
    [s EXCEPT !.keys = @ \cup {field}, ![field] = <<>>,
              !.errors = Append(@, message)]

\* edge of the graph: the run is routed to a node
GoTo(node) ==
    /\ pc' = node
    /\ trace' = Append(trace, node)

\* ------------------------------------------------------------------------
\* run_scan and the first nodes (src/graph.py)
\* ------------------------------------------------------------------------
\* run_scan up to graph.invoke: the initial state, START -> initialize
StartRun ==
    /\ pc = "idle"
    /\ fpc = "idle"
    /\ st = NoState
    /\ st' = [NoState EXCEPT !.keys = {"scan_type", "scan_date"},
                             !.scan_type = IF req.date_arg = None
                                           THEN "live" ELSE "backtest",
                             !.scan_date = req.date_arg,
                             !.start_time = now]
    /\ GoTo("initialize")
    /\ UNCHANGED purevars
    /\ UNCHANGED <<now, nticks, cache, fetchvars, ncalls, op, req, failed,
                   bidx, results, agent_runs>>

initialize_scan ==
    /\ pc = "initialize"
    /\ st' = [st EXCEPT !.keys = @ \cup {"scan_id", "scan_timestamp",
                                         "errors", "metadata"},
                        !.scan_id = Len(agent_runs) + 1,
                        !.scan_timestamp = now,
                        !.errors = <<>>]
    /\ GoTo("universe")
    /\ UNCHANGED purevars
    /\ UNCHANGED <<now, nticks, cache, fetchvars, ncalls, op, req, failed,
                   bidx, results, agent_runs>>

load_universe_node ==
    /\ pc = "universe"
    /\ \E fault \in BOOLEAN :
         IF fault
         THEN /\ CanFail
              /\ st' = except_handler(st, "universe",
                                       "Universe loading failed")
              /\ failed' = Append(failed, "universe")
         ELSE /\ st' = [st EXCEPT !.keys = @ \cup {"universe"},
                                  !.universe = req.universe]
              /\ UNCHANGED failed
    /\ GoTo("fetcher")
    /\ UNCHANGED <<purevars, now, nticks, cache, fetchvars, ncalls, op, req,
                   bidx, results, agent_runs>>

\* ------------------------------------------------------------------------
\* fetch_multiple_symbols inside fetch_data_node
\* ------------------------------------------------------------------------
\* rate_limit = 1.0 / requests_per_second, in ticks
rate_limit == Ticks(1) \div requests_per_second

\* df, source = fetch_market_data(symbol, timeframe, target_date=target_date)
\* for the next symbol of the universe: the call is entered
BatchNext ==
    /\ pc = "fetcher"
    /\ fpc = "idle"
    /\ bidx < Len(st.universe)
    /\ \E rfault \in BOOLEAN :
         EnterFetch(st.universe[bidx + 1], "1d", st.scan_date, TRUE, rfault,
                    log)
    /\ UNCHANGED <<purevars, now, nticks, cache, ncalls, op, req, pipevars>>

\* results[symbol] = (df, source); if another symbol follows, the loop
\* sleeps rate_limit before it calls fetch_market_data again
BatchCollect ==
    /\ pc = "fetcher"
    /\ fpc = "done"
    /\ results' = (fargs.symbol :> fret) @@ results
    /\ bidx' = bidx + 1
    /\ IF bidx + 1 < Len(st.universe)
       THEN /\ now' = now + rate_limit
            /\ log' = Append(log, Ev("rate", "", bidx + 1, rate_limit, TRUE))
       ELSE UNCHANGED <<now, log>>
    /\ fpc' = "idle"
    /\ fargs' = NoArgs
    /\ fret' = NoRet
    /\ attempt' = 0
    /\ UNCHANGED purevars
    /\ UNCHANGED <<nticks, cache, ncalls, op, req, pc, st, trace, failed,
                   agent_runs>>

\* symbols of a dict in insertion order, given the order of insertion
RECURSIVE InsertionOrder(_, _)
InsertionOrder(symbols, keys) ==
    IF symbols = <<>> THEN <<>>
    ELSE IF Head(symbols) \in keys
         THEN <<Head(symbols)>>
                \o InsertionOrder(Tail(symbols), keys \ {Head(symbols)})
         ELSE InsertionOrder(Tail(symbols), keys)

successful_data_unfiltered(market_data) ==
    [s \in DOMAIN market_data |->
        [df |-> IF market_data[s].df = None THEN EmptyFrame
                ELSE market_data[s].df[1],
         source |-> market_data[s].source]]

\* successful_data: the fetches with a frame that is not empty
successful_data(market_data) ==
    LET ok == {s \in DOMAIN market_data :
                  /\ market_data[s].df # None
                  /\ market_data[s].df[1].bars > 0}
    IN  [s \in ok |-> [df |-> market_data[s].df[1],
                       source |-> market_data[s].source]]

\* fetch_data_node after fetch_multiple_symbols has returned
FetchDataDone ==
    /\ pc = "fetcher"
    /\ fpc = "idle"
    /\ bidx = Len(st.universe)
    /\ st' = [st EXCEPT !.keys = @ \cup {"market_data"},
                        !.market_data = successful_data(results)]
    /\ GoTo("indicators")
    /\ UNCHANGED purevars
    /\ UNCHANGED <<now, nticks, cache, fetchvars, ncalls, op, req, failed,
                   bidx, results, agent_runs>>

\* fetch_data_node: an exception escapes the batch
FetchDataFault ==
    /\ pc = "fetcher"
    /\ fpc = "idle"
    /\ CanFail
    /\ st' = except_handler(st, "market_data", "Data fetch failed")
    /\ failed' = Append(failed, "fetcher")
    /\ GoTo("indicators")
    /\ UNCHANGED <<purevars, now, nticks, cache, fetchvars, ncalls, op, req,
                   bidx, results, agent_runs>>

\* ------------------------------------------------------------------------
\* Indicators and detection (src/agent/indicators.py, setup_detector.py)
\* ------------------------------------------------------------------------
\* the frame with the indicator columns; the frame itself when it is
\* empty.  ncols is the number of columns added before the computation
\* stops: all of them, none (pandas_ta cannot be imported) or some (an
\* exception on the way: the copy made so far is returned).
compute_indicators_last_bar(df, ncols) ==
    IF df.bars = 0 THEN df
    ELSE [df EXCEPT !.bars = 1, !.cols = {ColumnOrder[i] : i \in 1..ncols}]

compute_indicators(df, ncols) ==
    IF df.bars = 0 THEN df
    ELSE [df EXCEPT !.cols = {ColumnOrder[i] : i \in 1..ncols}]

\* the latest values as a dict: {} for an empty frame
get_latest_indicators(df) ==
    IF df.bars = 0 THEN <<>> ELSE <<[close |-> df.close]>>

\* market_data once the loop has processed the first n symbols
IndicatorsLoop(market_data, order, n, ncols) ==
    [s \in DOMAIN market_data |->
        IF \E i \in 1..n : order[i] = s
        THEN [market_data[s] EXCEPT !.df = compute_indicators(@, ncols)]
        ELSE market_data[s]]

\* k = 0: the loop completes; k > 0: the k-th iteration raises
compute_indicators_node ==
    /\ pc = "indicators"
    /\ LET order == InsertionOrder(st.universe, DOMAIN st.market_data)
           n == Len(order)
           last == IF n = 0 THEN 1 ELSE n
       IN  \E ncols \in {0, Len(ColumnOrder)}, k \in 0..last :
             IF k = 0
             THEN /\ st' = [st EXCEPT
                       !.keys = @ \cup {"indicators"},
                       !.market_data = IndicatorsLoop(@, order, n, ncols),
                       !.indicators =
                           [s \in DOMAIN st.market_data |->
                               get_latest_indicators(compute_indicators(
                                   st.market_data[s].df, ncols))]]
                  /\ UNCHANGED failed
             ELSE /\ CanFail
                  /\ st' = except_handler(
                              [st EXCEPT !.market_data =
                                  IndicatorsLoop(@, order, k - 1, ncols)],
                              "indicators", "Indicator computation failed")
                  /\ failed' = Append(failed, "indicators")
    /\ GoTo("detector")
    /\ UNCHANGED <<purevars, now, nticks, cache, fetchvars, ncalls, op, req,
                   bidx, results, agent_runs>>

\* the failures that check_baseline_filters collects; a filter is applied
\* only when its indicator columns are present
BaselineFailures(df) ==
    { f \in {"price_below_ema_50", "price_below_ema_200", "rsi_out_of_range",
             "atr_too_low", "volume_low"} :
        CASE f = "price_below_ema_50" ->
                "EMA_50" \in df.cols /\ ~Gt(df.close, df.ema_50)
          [] f = "price_below_ema_200" ->
                "EMA_200" \in df.cols /\ ~Gt(df.close, df.ema_200)
          [] f = "rsi_out_of_range" ->
                /\ "RSI_14" \in df.cols
                /\ ~(Le(rsi_min, df.rsi) /\ Le(df.rsi, rsi_max))
          [] f = "atr_too_low" ->
                /\ "ATR_14" \in df.cols /\ "ATR_Percent" \in df.cols
                /\ Lt(df.atr_percent, min_atr_percent)
          [] f = "volume_low" ->
                /\ "Volume_Ratio" \in df.cols
                /\ Lt(df.volume_ratio, volume_spike_multiplier) }

check_baseline_filters_no_rsi(df) ==
    BaselineFailures(df) \subseteq {"rsi_out_of_range"}

check_baseline_filters(df) == BaselineFailures(df) = {}

\* the four type rules on a frame that passed the filters
RuleFires(df, setup_type) ==
    CASE setup_type = "BREAKOUT" ->
            /\ "Rolling_High_20" \in df.cols
            /\ ~Le(df.close, df.recent_high)
            /\ "Volume_Ratio" \in df.cols
            /\ ~Lt(df.volume_ratio, 13)
      [] setup_type = "PULLBACK" ->
            /\ "EMA_50" \in df.cols
            /\ "PULLBACK" \in df.sig
      [] setup_type = "MOMENTUM" ->
            /\ "Higher_High" \in df.cols /\ "Higher_Low" \in df.cols
            /\ "MOMENTUM" \in df.sig
      [] setup_type = "CONSOLIDATION" ->
            /\ "CONSOLIDATION" \in df.sig
            /\ ~("Volume_Ratio" \in df.cols /\ Lt(df.volume_ratio, 12))

SetupOrder == <<"BREAKOUT", "PULLBACK", "MOMENTUM", "CONSOLIDATION">>

\* min(a, b) of Python: a unless b < a
PyMin(a, b) == IF Lt(b, a) THEN b ELSE a

\* a + b on floats
Plus(a, b) == IF a = NaN \/ b = NaN THEN NaN ELSE a + b

\* calculate_setup_score, in points
calculate_setup_score(df) ==
    LET volume_score ==
            IF "Volume_Ratio" \in df.cols THEN PyMin(df.volume_ratio, 20)
            ELSE 0
        trend ==
            IF {"EMA_20", "EMA_50", "EMA_200"} \subseteq df.cols
            THEN IF Gt(df.ema_20, df.ema_50) /\ Gt(df.ema_50, df.ema_200)
                 THEN 20
                 ELSE IF Gt(df.ema_20, df.ema_50) THEN 10 ELSE 0
            ELSE 0
        rsi_score ==
            IF "RSI_14" \in df.cols
            THEN IF Le(60, df.rsi) /\ Le(df.rsi, 70) THEN 10
                 ELSE IF Le(55, df.rsi) /\ Le(df.rsi, 75) THEN 5 ELSE 0
            ELSE 0
        macd ==
            IF "MACD_histogram" \in df.cols /\ Gt(df.macd_histogram, 0)
            THEN 10 ELSE 0
    IN  PyMin(Plus(Plus(Plus(Plus(50, volume_score), trend), rsi_score),
                   macd), 100)

\* latest.name.date() if hasattr(latest.name, 'date') else date.today()
detection_date_today(df) == Today

detection_date(df) == IF df.dated THEN df.last_date ELSE Today

\* the record a detector builds; the trigger is the level the rule of the
\* type compares the close with, when the frame model holds it
Setup(symbol, df, setup_type) ==
    [symbol |-> symbol, setup_type |-> setup_type,
     detection_date |-> detection_date(df),
     current_price |-> df.close,
     trigger |-> CASE setup_type = "BREAKOUT" -> Some(df.recent_high)
                   [] setup_type = "PULLBACK" -> Some(df.ema_50)
                   [] OTHER -> None,
     setup_score |-> calculate_setup_score(df)]

detect_setups(symbol, df) ==
    IF df.bars < 50 THEN <<>>
    ELSE IF ~check_baseline_filters(df) THEN <<>>
    ELSE LET fired == SelectSeq(SetupOrder, LAMBDA t : RuleFires(df, t))
         IN  [i \in 1..Len(fired) |-> Setup(symbol, df, fired[i])]

\* all_setups.extend(setups) over the symbols in order
RECURSIVE AllSetups(_, _)
AllSetups(order, market_data) ==
    IF order = <<>> THEN <<>>
    ELSE detect_setups(Head(order), market_data[Head(order)].df)
           \o AllSetups(Tail(order), market_data)

\* state['market_data'].items(): one item for each key of the dict, in
\* insertion order
items_per_request(s) ==
    SelectSeq(s.universe, LAMBDA x : x \in DOMAIN s.market_data)

items(s) == InsertionOrder(s.universe, DOMAIN s.market_data)

should_evaluate_always(s) == "evaluate"

should_evaluate(s) ==
    IF s.detected_setups # <<>> THEN "evaluate" ELSE "skip"

detect_setups_node ==
    /\ pc = "detector"
    /\ \E fault \in BOOLEAN :
         IF fault
         THEN /\ CanFail
              /\ st' = except_handler(st, "detected_setups",
                                       "Setup detection failed")
              /\ failed' = Append(failed, "detector")
         ELSE /\ st' = [st EXCEPT
                   !.keys = @ \cup {"detected_setups"},
                   !.detected_setups =
                       AllSetups(items(st), st.market_data)]
              /\ UNCHANGED failed
    /\ IF should_evaluate(st') = "evaluate" THEN GoTo("evaluator")
       ELSE GoTo("skip_eval")
    /\ UNCHANGED <<purevars, now, nticks, cache, fetchvars, ncalls, op, req,
                   bidx, results, agent_runs>>

\* ------------------------------------------------------------------------
\* Evaluation and risk (src/agent/evaluator.py, src/graph.py)
\* ------------------------------------------------------------------------
\* A response text of the model server: text that is not JSON, or a JSON
\* object with these fields.
Verdict(quality, confirmation, strength, confidence) ==
    [json |-> TRUE, setup_quality |-> quality,
     breakout_confirmation |-> confirmation, trend_strength |-> strength,
     confidence_score |-> confidence]

NotJson ==
    [json |-> FALSE, setup_quality |-> "", breakout_confirmation |-> "",
     trend_strength |-> "", confidence_score |-> 0]

\* What the server answers to the successive calls made for one setup; None
\* is a call without a response.  In a scan: no response, or a verdict with
\* this confidence.
LLMResponses ==
    { <<None>>, <<Some(Verdict("HIGH", "YES", "STRONG", 79))>>,
      <<Some(Verdict("HIGH", "YES", "STRONG", 80))>> }

\* ollama.chat, called once
call_ollama(answers) == Head(answers)

parse_llm_response_unvalidated(response_text) ==
    Some([setup_quality |-> response_text.setup_quality,
          breakout_confirmation |-> response_text.breakout_confirmation,
          trend_strength |-> response_text.trend_strength,
          confidence_score |-> response_text.confidence_score])

\* json.loads and SetupEvaluation(**response_json)
parse_llm_response(response_text) ==
    IF /\ response_text.json
       /\ response_text.setup_quality \in {"HIGH", "MEDIUM", "LOW"}
       /\ response_text.breakout_confirmation \in {"YES", "NO"}
       /\ response_text.trend_strength \in {"STRONG", "MODERATE", "WEAK"}
       /\ response_text.confidence_score >= 0
       /\ response_text.confidence_score <= 100
    THEN Some([setup_quality |-> response_text.setup_quality,
               breakout_confirmation |->
                   response_text.breakout_confirmation,
               trend_strength |-> response_text.trend_strength,
               confidence_score |-> response_text.confidence_score])
    ELSE None

evaluate_setup(symbol, setup, answers) ==
    LET response_text == call_ollama(answers)
        evaluation == IF response_text = None THEN None
                      ELSE parse_llm_response(response_text[1])
    IN  IF evaluation = None THEN None
        ELSE Some([symbol |-> symbol, setup_type |-> setup.setup_type]
                    @@ evaluation[1])

\* setups_by_symbol, flattened: the groups in order of first appearance
RECURSIVE Grouped(_, _)
Grouped(symorder, setups) ==
    IF symorder = <<>> THEN <<>>
    ELSE SelectSeq(setups, LAMBDA x : x.symbol = Head(symorder))
           \o Grouped(Tail(symorder), setups)

setups_by_symbol(setups) ==
    LET syms == [i \in 1..Len(setups) |-> setups[i].symbol]
    IN  Grouped(InsertionOrder(syms, {syms[i] : i \in 1..Len(syms)}), setups)

RECURSIVE evaluate_multiple_setups(_, _, _, _)
evaluate_multiple_setups(setups, symbols, responses, i) ==
    IF i > Len(setups) THEN <<>>
    ELSE (IF setups[i].symbol \in symbols
          THEN evaluate_setup(setups[i].symbol, setups[i], responses[i])
          ELSE <<>>)
           \o evaluate_multiple_setups(setups, symbols, responses, i + 1)

evaluate_setups_node ==
    /\ pc = "evaluator"
    /\ \E fault \in BOOLEAN :
         IF fault
         THEN /\ CanFail
              /\ st' = except_handler(st, "evaluated_setups",
                                       "LLM evaluation failed")
              /\ failed' = Append(failed, "evaluator")
         ELSE /\ \E responses \in
                      [1..Len(st.detected_setups) -> LLMResponses] :
                   st' = [st EXCEPT
                       !.keys = @ \cup {"evaluated_setups"},
                       !.evaluated_setups =
                           evaluate_multiple_setups(
                               setups_by_symbol(st.detected_setups),
                               DOMAIN st.market_data, responses, 1)]
              /\ UNCHANGED failed
    /\ GoTo("risk")
    /\ UNCHANGED <<purevars, now, nticks, cache, fetchvars, ncalls, op, req,
                   bidx, results, agent_runs>>

\* float arithmetic: NaN in, NaN out
Minus(a, b) == IF a = NaN \/ b = NaN THEN NaN ELSE a - b
Times(a, b) == IF a = NaN \/ b = NaN THEN NaN ELSE a * b

\* a price of the frame as an amount, in hundredths of the price unit
Amount(price) == price * 100

calculate_stop_loss_no_floor(df, entry_price) ==
    IF "ATR_14" \notin df.cols
    THEN (entry_price * (100 - stop_loss_min_percent)) \div 100
    ELSE LET stop_loss_atr ==
                 Minus(entry_price, Times(stop_loss_atr_multiplier, df.atr))
             distance == Times(Minus(entry_price, stop_loss_atr), 100)
         IN  IF Gt(distance, stop_loss_max_percent * entry_price)
             THEN (entry_price * (100 - stop_loss_max_percent)) \div 100
             ELSE stop_loss_atr

\* calculate_stop_loss for entry_price > 0.  stop_loss_percent is compared
\* with the bounds after multiplying both sides by entry_price.
calculate_stop_loss(df, entry_price) ==
    IF "ATR_14" \notin df.cols
    THEN (entry_price * (100 - stop_loss_min_percent)) \div 100
    ELSE LET stop_loss_atr ==
                 Minus(entry_price, Times(stop_loss_atr_multiplier, df.atr))
             distance == Times(Minus(entry_price, stop_loss_atr), 100)
         IN  IF Lt(distance, stop_loss_min_percent * entry_price)
             THEN (entry_price * (100 - stop_loss_min_percent)) \div 100
             ELSE IF Gt(distance, stop_loss_max_percent * entry_price)
             THEN (entry_price * (100 - stop_loss_max_percent)) \div 100
             ELSE stop_loss_atr

calculate_entry_range_below(current_price) ==
    <<(current_price * (100 - 5 * entry_range_percent)) \div 100,
      (current_price * (100 - 3 * entry_range_percent)) \div 100>>

calculate_entry_range(current_price) ==
    <<(current_price * (100 - entry_range_percent)) \div 100,
      (current_price * (100 + entry_range_percent)) \div 100>>

calculate_targets_from_stop(entry_price, stop_loss) ==
    [i \in 1..Len(target_ratios) |->
        Plus(stop_loss, Times(Minus(entry_price, stop_loss),
                              target_ratios[i]))]

calculate_targets(entry_price, stop_loss) ==
    [i \in 1..Len(target_ratios) |->
        Plus(entry_price, Times(Minus(entry_price, stop_loss),
                                target_ratios[i]))]

calculate_position_size_uncapped(account_size, entry_price, stop_loss) ==
    LET risk_per_share == Minus(entry_price, stop_loss)
    IN  IF risk_per_share = NaN THEN None
        ELSE IF risk_per_share <= 0
        THEN Some([position_size |-> 0, position_value |-> 0])
        ELSE LET position_size ==
                     (account_size * risk_per_trade_percent)
                         \div risk_per_share
             IN  Some([position_size |-> position_size,
                       position_value |-> position_size * entry_price])

\* calculate_position_size for account_size >= 0: None when int() raises on
\* NaN.  max_risk_amount, in hundredths, is account_size *
\* risk_per_trade_percent; position_value > max_position_value is compared
\* after multiplying both sides by risk_per_share * 100 / account_size.
calculate_position_size(account_size, entry_price, stop_loss) ==
    LET risk_per_share == Minus(entry_price, stop_loss)
    IN  IF risk_per_share = NaN THEN None
        ELSE IF risk_per_share <= 0
        THEN Some([position_size |-> 0, position_value |-> 0])
        ELSE LET capped ==
                     /\ account_size > 0
                     /\ risk_per_trade_percent * entry_price
                          > max_position_percent * risk_per_share
                 position_size ==
                     IF capped
                     THEN (account_size * max_position_percent)
                              \div entry_price
                     ELSE (account_size * risk_per_trade_percent)
                              \div risk_per_share
             IN  Some([position_size |-> position_size,
                       position_value |-> position_size * entry_price])

\* reward_amount / risk_amount if risk_amount > 0 else 0, in hundredths
risk_reward_ratio(entry_mid, stop_loss, targets) ==
    LET risk_amount == Minus(entry_mid, stop_loss)
        reward_amount == Minus(targets[1], entry_mid)
    IN  IF Gt(risk_amount, 0)
        THEN (reward_amount * 100) \div risk_amount ELSE 0

\* the risk metrics of one setup, None when the computation raises
calculate_risk_metrics(symbol, setup, evaluation, df, account_size) ==
    Let(Amount(setup.current_price), LAMBDA current_price :
    Let(calculate_stop_loss(df, current_price), LAMBDA stop_loss :
    Let(calculate_entry_range(current_price), LAMBDA entry_range :
    Let((entry_range[1] + entry_range[2]) \div 2, LAMBDA entry_mid :
    Let(calculate_targets(entry_mid, stop_loss), LAMBDA targets :
    Let(Minus(entry_mid, stop_loss), LAMBDA risk_amount :
    Let(calculate_position_size(account_size, entry_mid, stop_loss),
        LAMBDA sized :
        IF sized = None THEN None
        ELSE Some([symbol |-> symbol,
                   entry_range_low |-> entry_range[1],
                   entry_range_high |-> entry_range[2],
                   entry_mid |-> entry_mid,
                   stop_loss |-> stop_loss,
                   target_1 |-> targets[1],
                   target_2 |-> targets[2],
                   risk_amount |-> risk_amount,
                   reward_amount |-> Minus(targets[1], entry_mid),
                   risk_reward_ratio |->
                       risk_reward_ratio(entry_mid, stop_loss, targets),
                   position_size |-> sized[1].position_size,
                   position_value |-> sized[1].position_value,
                   max_loss |-> sized[1].position_size * risk_amount])
    )))))))

\* candidate = {**setup, **evaluation, **risk_metrics}
Merge(setup, evaluation, risk_metrics) ==
    risk_metrics @@ evaluation @@ setup

\* the setup of an evaluation: the first one of its symbol and type
FindSetup(setups, e) ==
    LET found == SelectSeq(setups, LAMBDA x : /\ x.symbol = e.symbol
                                              /\ x.setup_type = e.setup_type)
    IN  IF found = <<>> THEN None ELSE Some(Head(found))

\* the loop of calculate_risk_node: the candidates, or None when
\* calculate_risk_metrics raises for one of them
RECURSIVE Candidates(_, _, _)
Candidates(evaluations, setups, market_data) ==
    IF evaluations = <<>> THEN Some(<<>>)
    ELSE LET e == Head(evaluations)
             setup == FindSetup(setups, e)
             rest == Candidates(Tail(evaluations), setups, market_data)
         IN  IF setup = None \/ e.symbol \notin DOMAIN market_data
             THEN rest
             ELSE LET risk_metrics ==
                          calculate_risk_metrics(e.symbol, setup[1], e,
                              market_data[e.symbol].df,
                              default_account_size)
                  IN  IF risk_metrics = None \/ rest = None THEN None
                      ELSE Some(<<Merge(setup[1], e, risk_metrics[1])>>
                                  \o rest[1])

calculate_risk_node ==
    /\ pc = "risk"
    /\ \E candidates \in {Candidates(st.evaluated_setups,
                                     st.detected_setups, st.market_data)} :
           \E fault \in BOOLEAN :
             IF (fault /\ CanFail) \/ candidates = None
             THEN /\ st' = except_handler(st, "trade_candidates",
                                           "Risk calculation failed")
                  /\ failed' = Append(failed, "risk")
             ELSE /\ ~fault
                  /\ st' = [st EXCEPT
                       !.keys = @ \cup {"trade_candidates"},
                       !.trade_candidates = candidates[1]]
                  /\ UNCHANGED failed
    /\ GoTo("persister")
    /\ UNCHANGED <<purevars, now, nticks, cache, fetchvars, ncalls, op, req,
                   bidx, results, agent_runs>>

skip_evaluation_node_to_risk ==
    /\ pc = "skip_eval"
    /\ st' = [st EXCEPT
                 !.keys = @ \cup {"evaluated_setups", "trade_candidates"},
                 !.evaluated_setups = <<>>,
                 !.trade_candidates = <<>>]
    /\ GoTo("risk")
    /\ UNCHANGED purevars
    /\ UNCHANGED <<now, nticks, cache, fetchvars, ncalls, op, req, failed,
                   bidx, results, agent_runs>>

skip_evaluation_node ==
    /\ pc = "skip_eval"
    /\ st' = [st EXCEPT
                 !.keys = @ \cup {"evaluated_setups", "trade_candidates"},
                 !.evaluated_setups = <<>>,
                 !.trade_candidates = <<>>]
    /\ GoTo("persister")
    /\ UNCHANGED purevars
    /\ UNCHANGED <<now, nticks, cache, fetchvars, ncalls, op, req, failed,
                   bidx, results, agent_runs>>

\* ------------------------------------------------------------------------
\* Persistence and notification (src/agent/persister.py, notifier.py)
\* ------------------------------------------------------------------------
HighConfidence_all(records, threshold) == records

HighConfidence(records, threshold) ==
    SelectSeq(records, LAMBDA c : c.confidence_score >= threshold)

run_data_no_errors(s) ==
    [scan_id |-> s.scan_id, scan_type |-> s.scan_type,
     universe_size |-> Len(s.universe),
     stocks_fetched |-> Cardinality(DOMAIN s.market_data),
     setups_detected |-> Len(s.detected_setups),
     setups_evaluated |-> Len(s.evaluated_setups),
     high_confidence_count |-> Len(HighConfidence(s.evaluated_setups, 80)),
     status |-> "success",
     error_message |-> s.errors]

\* the row of agent_runs that persist_scan_results inserts
run_data(s) ==
    [scan_id |-> s.scan_id, scan_type |-> s.scan_type,
     universe_size |-> Len(s.universe),
     stocks_fetched |-> Cardinality(DOMAIN s.market_data),
     setups_detected |-> Len(s.detected_setups),
     setups_evaluated |-> Len(s.evaluated_setups),
     high_confidence_count |-> Len(HighConfidence(s.evaluated_setups, 80)),
     status |-> IF s.errors = <<>> THEN "success" ELSE "partial",
     error_message |-> s.errors]

\* persist_scan_results catches every failure of the database itself; the
\* handler of persist_data_node has nothing left to catch
persist_data_node ==
    /\ pc = "persister"
    /\ \E dbfault \in BOOLEAN :
         IF dbfault
         THEN /\ CanFail
              /\ st' = [st EXCEPT !.keys = @ \cup {"persistence"},
                                  !.persistence = NoPersistence,
                                  !.errors = Append(@, "Persistence error")]
              /\ failed' = Append(failed, "persister")
              /\ UNCHANGED agent_runs
         ELSE /\ agent_runs' = Append(agent_runs, run_data(st))
              /\ st' = [st EXCEPT
                   !.keys = @ \cup {"persistence"},
                   !.persistence = [NoPersistence EXCEPT
                       !.success = TRUE,
                       !.setups_saved = Len(st.detected_setups),
                       !.evaluations_saved = Len(st.evaluated_setups)]]
              /\ UNCHANGED failed
    /\ GoTo("notifier")
    /\ UNCHANGED <<purevars, now, nticks, cache, fetchvars, ncalls, op, req,
                   bidx, results>>

\* the alert channels that ALERT_CONFIG enables, in the order they are tried
ChannelOrder == <<"webhook", "telegram", "email">>

\* one record per alerted candidate and channel, with the setup type and
\* the confidence of the candidate that was sent
RECURSIVE Alerts(_, _)
Alerts(candidates, channels) ==
    IF candidates = <<>> THEN <<>>
    ELSE [i \in 1..Len(channels) |->
             [symbol |-> Head(candidates).symbol, type |-> channels[i],
              setup_type |-> Head(candidates).setup_type,
              confidence_score |-> Head(candidates).confidence_score]]
           \o Alerts(Tail(candidates), channels)

send_notifications(s, enabled) ==
    LET high_confidence ==
            HighConfidence(s.trade_candidates, min_confidence_for_alert)
    IN  IF s.trade_candidates = <<>> THEN s
        ELSE IF high_confidence = <<>> THEN s
        ELSE [s EXCEPT
                !.keys = @ \cup {"notifications"},
                !.notifications =
                    Alerts(high_confidence,
                           SelectSeq(ChannelOrder,
                                     LAMBDA c : c \in enabled))]

\* fault "send": send_notifications raises before it records anything;
\* fault "summary": log_summary raises after send_notifications returned
notify_node ==
    /\ pc = "notifier"
    /\ \E fault \in {"none", "send", "summary"},
          enabled \in {{}, {"webhook"}} :
         LET sent == send_notifications(st, enabled)
         IN  IF fault = "none"
             THEN /\ st' = sent
                  /\ UNCHANGED failed
             ELSE /\ CanFail
                  /\ st' = [(IF fault = "send" THEN st ELSE sent) EXCEPT
                               !.errors = Append(@, "Notification failed")]
                  /\ failed' = Append(failed, "notifier")
    /\ GoTo("END")
    /\ UNCHANGED <<purevars, now, nticks, cache, fetchvars, ncalls, op, req,
                   bidx, results, agent_runs>>

\* run_scan after graph.invoke: the duration is added to the final state
RunScanReturn ==
    /\ pc = "END"
    /\ pc' = "exit"
    /\ st' = [st EXCEPT !.keys = @ \cup {"duration_seconds"},
                        !.duration_seconds = now - st.start_time]
    /\ UNCHANGED purevars
    /\ UNCHANGED <<now, nticks, cache, fetchvars, ncalls, op, req, trace,
                   failed, bidx, results, agent_runs>>

\* ------------------------------------------------------------------------
\* Specifications
\* ------------------------------------------------------------------------
\* no argument: no function is called on its own
NoArg == [fn |-> ""]

vars == <<now, nticks, cache, fpc, fargs, attempt, fret, log, ncalls, op,
          req, pc, st, trace, failed, bidx, results, agent_runs, arg, ret>>

Init ==
    /\ now = 0
    /\ nticks = 0
    /\ cache = << >>
    /\ fpc = "idle"
    /\ fargs = NoArgs
    /\ attempt = 0
    /\ fret = NoRet
    /\ log = <<>>
    /\ ncalls = 0
    /\ op = NoOp
    /\ pc = "idle"
    /\ st = NoState
    /\ trace = <<>>
    /\ failed = <<>>
    /\ bidx = 0
    /\ results = << >>
    /\ agent_runs = <<>>
    /\ req = NoReq
    /\ arg = NoArg
    /\ ret = <<>>

\* a caller that repeats one request
FetchInit ==
    /\ Init!1 /\ Init!2 /\ Init!3 /\ Init!4 /\ Init!5
    /\ Init!6 /\ Init!7 /\ Init!8 /\ Init!9 /\ Init!10
    /\ Init!11 /\ Init!12 /\ Init!13 /\ Init!14 /\ Init!15
    /\ Init!16 /\ Init!17 /\ Init!19 /\ Init!20
    /\ req \in [symbol : FetchSymbols, timeframe : Timeframes,
                date_arg : {None} \cup {Some(d) : d \in BacktestDates},
                universe : {<<>>}]

\* the cache store used on its own
CacheNext == Get \/ Put \/ ShortTick \/ Corrupt
CacheSpec == Init /\ [][CacheNext]_vars

\* fetch_market_data called by an arbitrary caller
FetchNext == CallFetch \/ TryJugaad \/ TryYfinance \/ Return \/ Tick \/ Corrupt
FetchSpec == FetchInit /\ [][FetchNext]_vars

\* one scan of a configured universe; the last universe lists a symbol twice
Universes ==
    { <<>>, <<"A.NS">>, <<"B.NS", "A.NS">>, <<"A.NS", "A.NS">> }

ScanInit ==
    /\ Init!1 /\ Init!2 /\ Init!3 /\ Init!4 /\ Init!5
    /\ Init!6 /\ Init!7 /\ Init!8 /\ Init!9 /\ Init!10
    /\ Init!11 /\ Init!12 /\ Init!13 /\ Init!14 /\ Init!15
    /\ Init!16 /\ Init!17 /\ Init!19 /\ Init!20
    /\ req \in [symbol : {""}, timeframe : {"1d"},
                date_arg : {None} \cup {Some(d) : d \in BacktestDates},
                universe : Universes]

Fetcher == BatchNext \/ TryJugaad \/ TryYfinance \/ BatchCollect
             \/ FetchDataDone \/ FetchDataFault

Step ==
    \/ initialize_scan
    \/ load_universe_node
    \/ Fetcher
    \/ compute_indicators_node
    \/ detect_setups_node
    \/ evaluate_setups_node
    \/ calculate_risk_node
    \/ skip_evaluation_node
    \/ persist_data_node
    \/ notify_node
    \/ RunScanReturn

Next == StartRun \/ Step
Spec == ScanInit /\ [][Next]_vars

\* a started run is not suspended for ever; the run is a live scan (the
\* edges of the graph do not read the scan date)
LiveScan == ScanInit /\ req.date_arg = None
LiveSpec == LiveScan /\ [][Next]_vars
FairSpec == LiveSpec /\ WF_vars(Step)

\* detect_setups called on its own, MaxCalls times at most on one frame,
\* while time passes between the calls
DetectFrames ==
    [bars : {49, 50}, close : {1230}, dated : BOOLEAN, last_date : {0},
     cols : {{ColumnOrder[i] : i \in 1..n} : n \in 0..Len(ColumnOrder)},
     ema_20 : {1210}, ema_50 : {NaN, 1200, 1230},
     ema_200 : {NaN, 1100, 1300}, rsi : {NaN, 54, 55, 70, 71},
     macd_histogram : {1}, atr : {2460}, atr_percent : {NaN, 9, 10},
     volume_ratio : {NaN, 14, 15}, recent_high : {NaN, 1220, 1230},
     sig : {{}, {"PULLBACK", "MOMENTUM", "CONSOLIDATION"}}]

DetectInit ==
    /\ Init!1 /\ Init!2 /\ Init!3 /\ Init!4 /\ Init!5
    /\ Init!6 /\ Init!7 /\ Init!8 /\ Init!9 /\ Init!10
    /\ Init!11 /\ Init!12 /\ Init!13 /\ Init!14 /\ Init!15
    /\ Init!16 /\ Init!17 /\ Init!18 /\ Init!20
    /\ arg \in [fn : {"detect_setups"}, symbol : {"A.NS"}, df : DetectFrames]

CallDetect ==
    /\ arg.fn = "detect_setups"
    /\ Len(ret) < MaxCalls
    /\ ret' = Append(ret, [out |-> detect_setups(arg.symbol, arg.df),
                            t |-> now])
    /\ UNCHANGED <<arg, now, nticks, cache, ncalls, op, req, fetchvars,
                   pipevars>>

\* a day goes by
Elapse ==
    /\ nticks < MaxTicks
    /\ now' = now + Ticks(86400)
    /\ nticks' = nticks + 1
    /\ UNCHANGED <<purevars, cache, ncalls, op, req, fetchvars, pipevars>>

DetectNext == CallDetect \/ Elapse
DetectSpec == DetectInit /\ [][DetectNext]_vars

\* the functions of the risk engine called on their own, MaxCalls times at
\* most on one argument.  Prices are whole price units, as amounts.
RiskPrices == {Amount(p) : p \in {1, 50, 100}}

\* ATR_14 of the latest bar: none, at and around the edges of the band
RiskAtrs(entry_price) ==
    {NaN, 0, entry_price \div 100 - 1, entry_price \div 100,
     entry_price \div 100 + 1, 2 * (entry_price \div 100),
     4 * (entry_price \div 100) - 1, 4 * (entry_price \div 100),
     4 * (entry_price \div 100) + 1, entry_price}

\* entry_price - stop_loss
RiskPerShare == {0 - 100, 0, 200, 500, 1000, 2500}

AccountSizes == {0, 1000, default_account_size}

RiskArgs ==
    UNION {[fn : {"calculate_stop_loss"}, entry_price : {e},
            df : {[EmptyFrame EXCEPT !.bars = 50, !.cols = c, !.atr = a] :
                    c \in {{}, {"ATR_14"}}, a \in RiskAtrs(e)}] :
           e \in RiskPrices}
    \cup UNION {[fn : {"calculate_targets"}, entry_price : {e},
                 stop_loss : {e - r : r \in RiskPerShare \cup {5}}] :
                e \in RiskPrices \cup {100}}
    \cup UNION {[fn : {"calculate_position_size"},
                 account_size : AccountSizes, entry_price : {e},
                 stop_loss : {e - r : r \in RiskPerShare}] :
                e \in RiskPrices}

RiskInit ==
    /\ Init!1 /\ Init!2 /\ Init!3 /\ Init!4 /\ Init!5
    /\ Init!6 /\ Init!7 /\ Init!8 /\ Init!9 /\ Init!10
    /\ Init!11 /\ Init!12 /\ Init!13 /\ Init!14 /\ Init!15
    /\ Init!16 /\ Init!17 /\ Init!18 /\ Init!20
    /\ arg \in RiskArgs

\* the call returns out
Returned(out) ==
    /\ Len(ret) < MaxCalls
    /\ ret' = Append(ret, [out |-> out, t |-> now])
    /\ UNCHANGED <<arg, now, nticks, cache, ncalls, op, req, fetchvars,
                   pipevars>>

CallStopLoss ==
    /\ arg.fn = "calculate_stop_loss"
    /\ Returned(calculate_stop_loss(arg.df, arg.entry_price))

\* calculate_targets, and the reward:risk ratio of its targets
CallTargets ==
    /\ arg.fn = "calculate_targets"
    /\ LET targets == calculate_targets(arg.entry_price, arg.stop_loss)
       IN  Returned([targets |-> targets,
                     risk_reward_ratio |->
                         risk_reward_ratio(arg.entry_price, arg.stop_loss,
                                           targets)])

CallPositionSize ==
    /\ arg.fn = "calculate_position_size"
    /\ Returned(calculate_position_size(arg.account_size, arg.entry_price,
                                        arg.stop_loss))

RiskNext == CallStopLoss \/ CallTargets \/ CallPositionSize
RiskSpec == RiskInit /\ [][RiskNext]_vars

\* evaluate_multiple_setups and the loop of calculate_risk_node applied to
\* the two setups of one symbol, MaxCalls times at most.  The server's
\* answers: none, text that is not JSON, a field outside its enumeration,
\* a confidence at and beyond the ends of [0, 100]; a second answer is what
\* a repeated call would receive.
EvalFrame ==
    [(CHOOSE df \in SeriesSet : df.bars >= 50) EXCEPT
        !.cols = {ColumnOrder[i] : i \in 1..Len(ColumnOrder)}]

EvalSetups == detect_setups("A.NS", EvalFrame)

EvalAnswers ==
    LET good == Some(Verdict("MEDIUM", "NO", "WEAK", 80))
        first == {None, Some(NotJson),
                  Some(Verdict("BEST", "YES", "STRONG", 90)),
                  Some(Verdict("HIGH", "MAYBE", "STRONG", 90)),
                  Some(Verdict("HIGH", "YES", "FLAT", 90)),
                  Some(Verdict("HIGH", "YES", "STRONG", 0 - 1)),
                  Some(Verdict("HIGH", "YES", "STRONG", 101)),
                  Some(Verdict("LOW", "NO", "MODERATE", 0)),
                  Some(Verdict("HIGH", "YES", "STRONG", 100))}
    IN  {<<a>> : a \in first} \cup {<<a, good>> : a \in first}

EvalInit ==
    /\ Init!1 /\ Init!2 /\ Init!3 /\ Init!4 /\ Init!5
    /\ Init!6 /\ Init!7 /\ Init!8 /\ Init!9 /\ Init!10
    /\ Init!11 /\ Init!12 /\ Init!13 /\ Init!14 /\ Init!15
    /\ Init!16 /\ Init!17 /\ Init!18 /\ Init!20
    /\ arg \in [fn : {"evaluate_multiple_setups"},
                 setups : {EvalSetups},
                 market_data : {[s \in {"A.NS"} |->
                                   [df |-> EvalFrame, source |-> "jugaad"]]},
                 answers : [1..Len(EvalSetups) -> EvalAnswers]]

CallEvaluate ==
    /\ arg.fn = "evaluate_multiple_setups"
    /\ LET evaluations ==
               evaluate_multiple_setups(setups_by_symbol(arg.setups),
                   DOMAIN arg.market_data, arg.answers, 1)
       IN  Returned([evaluated_setups |-> evaluations,
                     trade_candidates |->
                         Candidates(evaluations, arg.setups,
                                    arg.market_data)])

EvalNext == CallEvaluate
EvalSpec == EvalInit /\ [][EvalNext]_vars

\* run_scan called MaxCalls times at most by one installation, on a universe
\* of one symbol, with collaborators that are mocked: no stage raises, and
\* the evaluator answers every request with the same text.  The cache table
\* and the clock are those the earlier runs left.
\* The stages after the fetcher, applied to what fetch_market_data returned:
ScanStages(symbol, fetched, answers) ==
    LET fetched_data == successful_data(symbol :> fetched)
        order == InsertionOrder(<<symbol>>, DOMAIN fetched_data)
        market_data == IndicatorsLoop(fetched_data, order, Len(order),
                                      Len(ColumnOrder))
        detected_setups == AllSetups(order, market_data)
        evaluated_setups ==
            evaluate_multiple_setups(setups_by_symbol(detected_setups),
                DOMAIN market_data,
                [i \in 1..Len(detected_setups) |-> answers], 1)
    IN  [source |-> fetched.source,
         detected_setups |-> detected_setups,
         evaluated_setups |-> evaluated_setups,
         trade_candidates |->
             Candidates(evaluated_setups, detected_setups, market_data)]

RerunInit ==
    /\ Init!1 /\ Init!2 /\ Init!3 /\ Init!4 /\ Init!5
    /\ Init!6 /\ Init!7 /\ Init!8 /\ Init!9 /\ Init!10
    /\ Init!11 /\ Init!12 /\ Init!13 /\ Init!14 /\ Init!15
    /\ Init!16 /\ Init!17 /\ Init!20
    /\ req \in [symbol : RerunSymbols, timeframe : {"1d"},
                date_arg : {None} \cup {Some(d) : d \in BacktestDates},
                universe : {<<s>> : s \in RerunSymbols}]
    /\ arg \in [fn : {"run_scan"}, answers : LLMResponses]

\* the run ends: its records are kept, with the cache row of its key
ScanReturn ==
    /\ arg.fn = "run_scan"
    /\ fpc = "done"
    /\ LET k == Key(fargs.symbol, fargs.timeframe, fargs.target_date)
       IN  ret' = Append(ret,
                [out |-> ScanStages(fargs.symbol, fret, arg.answers),
                 row |-> IF k \in DOMAIN cache THEN Some(cache[k]) ELSE None,
                 t |-> now])
    /\ fpc' = "idle"
    /\ fargs' = NoArgs
    /\ fret' = NoRet
    /\ log' = <<>>
    /\ attempt' = 0
    /\ UNCHANGED <<arg, now, nticks, cache, ncalls, op, req, pipevars>>

RerunNext == CallFetch \/ TryJugaad \/ TryYfinance \/ ScanReturn \/ Tick
RerunSpec == RerunInit /\ [][RerunNext]_vars

\* ------------------------------------------------------------------------
\* Properties of the cache store (CacheSpec)
\* ------------------------------------------------------------------------
OpRow == cache[op.key]
OpElapsed == now - OpRow.cached_at

\* C7: put followed by get with the same key and a TTL greater than or
\* equal to the elapsed time returns a series equal to the one stored.
C7_RoundTrip ==
    (/\ op.kind = "get" /\ ~op.fault
     /\ op.key \in DOMAIN cache
     /\ OpRow.data.ok
     /\ Ticks(op.ttl) >= OpElapsed)
        => op.res = Some(OpRow.orig)

\* C8: get returns an entry only while now - fetched-at < ttl; an entry
\* with now - fetched-at >= ttl is reported absent, and ttl = 0 misses for
\* every key and every cache content.
C8_OnlyLiveEntries ==
    op.kind = "get" =>
        /\ op.res # None =>
              /\ op.key \in DOMAIN cache
              /\ OpElapsed < Ticks(op.ttl)
        /\ (op.key \in DOMAIN cache /\ OpElapsed >= Ticks(op.ttl))
              => op.res = None
        /\ op.ttl = 0 => op.res = None

C8_Witness ==
    /\ op.kind = "get" /\ ~op.fault /\ op.ttl > 0
    /\ op.key \in DOMAIN cache
    /\ OpRow.data.ok
    /\ OpElapsed = Ticks(op.ttl)
    /\ op.res = None

\* C10: a put on an existing key replaces that entry (series and
\* fetched-at) and leaves every entry with a different key unchanged;
\* entries of one symbol and timeframe with different as-of-dates coexist.
C10_PutReplacesOnlyItsKey ==
    [][(op'.kind = "put" /\ ~op'.fault) =>
         /\ DOMAIN cache' = DOMAIN cache \cup {op'.key}
         /\ cache'[op'.key].orig = op'.df
         /\ cache'[op'.key].data.ok
         /\ cache'[op'.key].data.val.close = RoundDouble(op'.df.close)
         /\ cache'[op'.key].cached_at = now'
         /\ \A j \in DOMAIN cache \ {op'.key} : cache'[j] = cache[j]]_vars

C10_Witness ==
    /\ op.kind = "put" /\ ~op.fault /\ op.had
    /\ OpRow.cached_at = now /\ now > 0
    /\ \E j \in DOMAIN cache :
         /\ j.symbol = op.key.symbol /\ j.timeframe = op.key.timeframe
         /\ j.fetch_date # op.key.fetch_date
         /\ cache[j].cached_at < now

\* ------------------------------------------------------------------------
\* Properties of fetch_market_data (FetchSpec)
\* ------------------------------------------------------------------------
IsAttempt(e, src) == e.ev = "attempt" /\ e.src = src
AttemptsOn(src) == SelectSeq(log, LAMBDA e : IsAttempt(e, src))

\* the call found a row that parses and is younger than the TTL of its
\* timeframe, and the read did not fault
HadValidEntry ==
    /\ fargs.use_cache /\ ~fargs.rfault
    /\ fargs.row0 # None
    /\ fargs.row0[1].data.ok
    /\ fargs.t0 - fargs.row0[1].cached_at
          < Ticks(IF fargs.timeframe = "1d" THEN cache_ttl_daily
                  ELSE cache_ttl_weekly)

\* C1: with no cache hit, when every primary attempt fails and the first
\* fallback attempt succeeds, the call returns the fallback's series with
\* provenance yfinance after exactly max_retries primary attempts, and
\* primary attempts i and i+1 are separated by one sleep of
\* retry_delay * backoff^i.
C1_FallbackAfterPrimaryRetries ==
    \A p \in 1..Len(log) :
        (IsAttempt(log[p], "yfinance") /\ log[p].n = 0 /\ log[p].ok) =>
            /\ fpc = "done"
            /\ fret = [df |-> log[p].val, source |-> "yfinance"]
            /\ Len(AttemptsOn("jugaad")) = max_retries
            /\ Len(AttemptsOn("yfinance")) = 1
            /\ \A i \in 0..(max_retries - 2) :
                 \E q \in 1..(p - 3) :
                    /\ IsAttempt(log[q], "jugaad") /\ log[q].n = i
                    /\ ~log[q].ok
                    /\ log[q + 1].ev = "sleep"
                    /\ log[q + 1].d = Ticks(retry_delay * Pow(retry_backoff, i))
                    /\ IsAttempt(log[q + 2], "jugaad") /\ log[q + 2].n = i + 1
                    /\ log[q + 2].t - log[q].t = log[q + 1].d
            /\ IsAttempt(log[p - 1], "jugaad") /\ ~log[p - 1].ok

C1_Witness ==
    /\ fpc = "done"
    /\ fret.source = "yfinance"
    /\ Len(AttemptsOn("jugaad")) = max_retries
    /\ Len(AttemptsOn("yfinance")) = 1
    /\ now - fargs.t0 = Ticks(retry_delay) + Ticks(retry_delay * retry_backoff)

\* C5: with caching enabled and a valid entry for (symbol, timeframe,
\* as-of-date), the call returns that entry's series with provenance
\* cache at once: no adapter attempt, no sleep, no cache write.
C5_CacheHitReturnsAtOnce ==
    (fpc # "idle" /\ HadValidEntry) =>
        /\ fpc = "done"
        /\ fret = [df |-> Some(fargs.row0[1].data.val), source |-> "cache"]
        /\ Len(log) = 1 /\ log[1].ev = "get" /\ log[1].ok
        /\ now = fargs.t0
        /\ cache[Key(fargs.symbol, fargs.timeframe, fargs.target_date)]
              = fargs.row0[1]

C5_Witness ==
    /\ fpc = "done" /\ fret.source = "cache"
    /\ HadValidEntry
    /\ fargs.t0 - fargs.row0[1].cached_at >= Ticks(cache_ttl_daily)

\* C9: a read that hits a corrupted or unreadable entry returns absent
\* and the call goes on to the adapters; a failed cache write is ignored
\* and the call still returns the fetched series with its provenance.
ReadFaulted ==
    /\ fargs.use_cache
    /\ \/ fargs.rfault
       \/ fargs.row0 # None /\ ~fargs.row0[1].data.ok

C9_CacheFaultsNotFatal ==
    /\ (fpc # "idle" /\ ReadFaulted) =>
          /\ log[1].ev = "get" /\ ~log[1].ok /\ log[1].val = None
          /\ fret.source # "cache"
          /\ fpc \in {"jugaad", "yfinance", "done"}
          /\ fpc = "done" => Len(log) >= 2
          /\ Len(log) >= 2 => (IsAttempt(log[2], "jugaad") /\ log[2].n = 0)
    /\ \A p \in 1..Len(log) :
          (log[p].ev = "put") =>
              /\ fpc = "done"
              /\ p = Len(log)
              /\ IsAttempt(log[p - 1], log[p].src) /\ log[p - 1].ok
              /\ fret = [df |-> log[p - 1].val, source |-> log[p].src]
              /\ fret.df # None
              /\ fret.source \in {"jugaad", "yfinance"}

C9_Witness ==
    /\ fpc = "done"
    /\ fargs.use_cache /\ fargs.row0 # None /\ ~fargs.row0[1].data.ok
    /\ log[Len(log)].ev = "put" /\ ~log[Len(log)].ok
    /\ fret.df # None

\* ------------------------------------------------------------------------
\* Properties of a scan (Spec, FairSpec)
\* ------------------------------------------------------------------------
EvalPath == <<"initialize", "universe", "fetcher", "indicators", "detector",
              "evaluator", "risk", "persister", "notifier", "END">>
SkipPath == <<"initialize", "universe", "fetcher", "indicators", "detector",
              "skip_eval", "persister", "notifier", "END">>
IsPrefix(s, t) == Len(s) <= Len(t) /\ \A i \in 1..Len(s) : s[i] = t[i]
Routed(node) == \E i \in 1..Len(trace) : trace[i] = node
Finished == pc \in {"END", "exit"}

\* C4: the stage trace of a run is initialize, universe, fetcher,
\* indicators, detector, then evaluator and risk or else skip_eval, then
\* persister, notifier, END: no stage runs twice or after a later one,
\* persister comes before notifier, and every run reaches END.
C4_StageTrace ==
    /\ [](IsPrefix(trace, EvalPath) \/ IsPrefix(trace, SkipPath))
    /\ []((pc \notin {"idle", "exit"}) =>
             (trace # <<>> /\ trace[Len(trace)] = pc))
    /\ [](Finished => trace \in {EvalPath, SkipPath})
    /\ (pc = "initialize") ~> (pc = "END")

C4_Witness ==
    /\ pc = "END"
    /\ trace = EvalPath
    /\ failed # <<>>

DetectedNothing ==
    /\ "detected_setups" \in st.keys
    /\ st.detected_setups = <<>>

\* C3: a run whose detection yields no setup takes the skip path: the
\* evaluator and risk nodes do not run, evaluated_setups and
\* trade_candidates are both empty, and persister and notifier have run
\* when the run is done.
C3_EmptyDetectionSkips ==
    DetectedNothing =>
        /\ ~Routed("evaluator") /\ ~Routed("risk")
        /\ trace[6] = "skip_eval"
        /\ pc # "skip_eval" =>
              /\ {"evaluated_setups", "trade_candidates"} \subseteq st.keys
              /\ st.evaluated_setups = <<>>
              /\ st.trade_candidates = <<>>
        /\ Finished =>
              /\ trace = SkipPath
              /\ "persistence" \in st.keys

C3_Witness ==
    /\ pc = "END"
    /\ DetectedNothing
    /\ failed = <<>>
    /\ DOMAIN st.market_data # {}
    /\ Len(agent_runs) = 1

StageField(node) ==
    CASE node = "universe" -> "universe"
      [] node = "fetcher" -> "market_data"
      [] node = "indicators" -> "indicators"
      [] node = "detector" -> "detected_setups"
      [] node = "evaluator" -> "evaluated_setups"
      [] node = "risk" -> "trade_candidates"
      [] node = "persister" -> "persistence"
      [] node = "notifier" -> "notifications"

StageMessage(node) ==
    CASE node = "universe" -> "Universe loading failed"
      [] node = "fetcher" -> "Data fetch failed"
      [] node = "indicators" -> "Indicator computation failed"
      [] node = "detector" -> "Setup detection failed"
      [] node = "evaluator" -> "LLM evaluation failed"
      [] node = "risk" -> "Risk calculation failed"
      [] node = "persister" -> "Persistence error"
      [] node = "notifier" -> "Notification failed"

\* the stage that follows a failed one
StageAfter(node) ==
    CASE node = "universe" -> "fetcher"
      [] node = "fetcher" -> "indicators"
      [] node = "indicators" -> "detector"
      [] node = "detector" -> "skip_eval"
      [] node = "evaluator" -> "risk"
      [] node = "risk" -> "persister"
      [] node = "persister" -> "notifier"
      [] node = "notifier" -> "END"

TracePos(node) == CHOOSE i \in 1..Len(trace) : trace[i] = node

\* the failure of a stage is recorded and the run goes on
FailureRecorded(i) ==
    /\ Len(st.errors) = Len(failed)
    /\ st.errors[i] = StageMessage(failed[i])
    /\ Routed(failed[i])
    /\ Len(trace) > TracePos(failed[i])
    /\ trace[TracePos(failed[i]) + 1] = StageAfter(failed[i])
    /\ Finished => trace \in {EvalPath, SkipPath}

\* the output field of a failed stage has been assigned its empty value
\* (for persister: a status that says nothing was saved)
OutputNeutral(node) ==
    /\ StageField(node) \in st.keys
    /\ IF node = "persister" THEN ~st.persistence.success
       ELSE st[StageField(node)] = <<>>

\* C2 as stated: for every stage after initialize, a failure appends a
\* message to the error list, sets the stage's output field to its empty
\* or neutral value, and the next stage still runs.
C2_EveryFailureLeavesNeutralOutput ==
    \A i \in 1..Len(failed) :
        FailureRecorded(i) /\ OutputNeutral(failed[i])

\* C2, amended: a failure of universe, fetcher, indicators, detector,
\* evaluator or risk appends a message, keeps the earlier ones, sets the
\* stage's field to its empty value and lets the next stage run; a failure
\* of persister appends a message, writes no run record and sets
\* persistence to an unsuccessful status; a failure of notifier appends a
\* message and assigns nothing: notifications stays unassigned unless the
\* alerts had already been recorded.  The run still reaches END.
C2_StageFailureContained ==
    \A i \in 1..Len(failed) :
        /\ FailureRecorded(i)
        /\ failed[i] # "notifier" => OutputNeutral(failed[i])
        /\ failed[i] = "persister" => agent_runs = <<>>
        /\ (failed[i] = "notifier" /\ "notifications" \in st.keys) =>
              HighConfidence(st.trade_candidates,
                             min_confidence_for_alert) # <<>>

C2_Witness ==
    /\ pc = "END"
    /\ Len(failed) = 2
    /\ failed[2] = "notifier"
    /\ "notifications" \notin st.keys
    /\ st.errors = <<StageMessage(failed[1]), "Notification failed">>

\* positions of the cache reads that open the calls of fetch_market_data
CallStarts ==
    SelectSeq([p \in 1..Len(log) |-> p], LAMBDA p : log[p].ev = "get")

\* the i-th call made max_retries failed attempts on each source
Exhausted(i) ==
    LET first == CallStarts[i]
        last == IF i < Len(CallStarts) THEN CallStarts[i + 1] - 1
                ELSE Len(log)
        fails(src) == {p \in first..last :
                          IsAttempt(log[p], src) /\ ~log[p].ok}
    IN  /\ Cardinality(fails("jugaad")) = max_retries
        /\ Cardinality(fails("yfinance")) = max_retries

LastFetchOf(i) == \A j \in (i + 1)..bidx : st.universe[j] # st.universe[i]

\* C6: in a batch fetch a symbol whose fetch exhausts both adapters is
\* returned as (None, 'none') and is absent from market_data; the batch
\* goes on: every symbol of the universe is fetched, in universe order,
\* and every symbol with a non-empty series is in market_data with its
\* provenance.
C6_BatchSurvivesFailedSymbol ==
    (Routed("fetcher") /\ ~(\E i \in 1..Len(failed) : failed[i] = "fetcher"))
    =>
        /\ Len(CallStarts) <= Len(st.universe)
        /\ \A i \in 1..Len(CallStarts) :
              log[CallStarts[i]].sym = st.universe[i]
        /\ pc # "fetcher" =>
              /\ Len(CallStarts) = Len(st.universe)
              /\ bidx = Len(st.universe)
        /\ \A i \in 1..bidx :
              LastFetchOf(i) =>
                 LET s == st.universe[i]
                 IN  /\ s \in DOMAIN results
                     /\ Exhausted(i) => results[s] = NoRet
                     /\ pc # "fetcher" =>
                          IF results[s].df = None
                          THEN s \notin DOMAIN st.market_data
                          ELSE /\ s \in DOMAIN st.market_data
                               /\ st.market_data[s].source = results[s].source
                               /\ [st.market_data[s].df EXCEPT !.cols = {}]
                                     = results[s].df[1]

C6_Witness ==
    /\ pc = "indicators"
    /\ failed = <<>>
    /\ st.universe = <<"B.NS", "A.NS">>
    /\ Exhausted(1)
    /\ results["B.NS"] = NoRet
    /\ DOMAIN st.market_data = {"A.NS"}
    /\ st.market_data["A.NS"].source = "yfinance"

\* positions of the adapter calls in the log
AttemptPositions ==
    SelectSeq([p \in 1..Len(log) |-> p], LAMBDA p : log[p].ev = "attempt")

\* C11: in a batch fetch any two consecutive adapter calls (to either
\* adapter, for the same or for different symbols) are at least
\* 1/requests_per_second apart, and a symbol served from the cache incurs
\* no rate-limit sleep.
C11_RateLimitOnlyBetweenAttempts ==
    /\ \A i \in 1..(Len(AttemptPositions) - 1) :
          log[AttemptPositions[i + 1]].t - log[AttemptPositions[i]].t
              >= rate_limit
    /\ \A p \in 1..(Len(log) - 1) :
          (log[p].ev = "rate" /\ log[p + 1].ev = "get") => ~log[p + 1].ok

\* the latest bar of a frame with indicator columns fails a baseline
\* condition: close above EMA-50 and EMA-200, RSI within [rsi_min, rsi_max],
\* ATR% at least the minimum, volume ratio at least the spike multiplier
FailsBaselineCondition(df) ==
    \/ "EMA_50" \in df.cols /\ df.ema_50 # NaN /\ df.close <= df.ema_50
    \/ "EMA_200" \in df.cols /\ df.ema_200 # NaN /\ df.close <= df.ema_200
    \/ /\ "RSI_14" \in df.cols /\ df.rsi # NaN
       /\ (df.rsi < rsi_min \/ df.rsi > rsi_max)
    \/ /\ "ATR_Percent" \in df.cols /\ df.atr_percent # NaN
       /\ df.atr_percent < min_atr_percent
    \/ /\ "Volume_Ratio" \in df.cols /\ df.volume_ratio # NaN
       /\ df.volume_ratio < volume_spike_multiplier

\* C12: when the latest bar of the frame fails a baseline condition, every
\* call of detect_setups on it returns the empty list, whatever the four
\* type rules find; so does a frame whose RSI is out of range and which
\* meets the BREAKOUT rule.
C12_BaselineShortCircuits ==
    (arg.fn = "detect_setups" /\ FailsBaselineCondition(arg.df))
        => \A i \in 1..Len(ret) : ret[i].out = <<>>

\* a frame that fails the RSI range only, meets the BREAKOUT rule, and has
\* been answered with the empty list
C12_Witness ==
    /\ arg.fn = "detect_setups"
    /\ arg.df.bars >= 50
    /\ BaselineFailures(arg.df) = {"rsi_out_of_range"}
    /\ arg.df.rsi > rsi_max
    /\ RuleFires(arg.df, "BREAKOUT")
    /\ Len(ret) > 0
    /\ ret[1].out = <<>>

\* C13: in every scan, whatever the universe (a symbol may be listed in it
\* more than once), the detected setups hold at most one setup for a symbol
\* and a setup type.
C13_OneSetupPerSymbolAndType ==
    \A i, j \in 1..Len(st.detected_setups) :
        (/\ st.detected_setups[i].symbol = st.detected_setups[j].symbol
         /\ st.detected_setups[i].setup_type
              = st.detected_setups[j].setup_type) => i = j

\* the scan of a universe that lists A.NS twice has detected two setups
C13_Witness ==
    /\ st.universe = <<"A.NS", "A.NS">>
    /\ "detector" \in {trace[i] : i \in 1..Len(trace)}
    /\ Len(st.detected_setups) = 2

\* C14: any two calls of detect_setups on the same date-indexed series
\* return the same list of setups (types, trigger, detection date, price
\* and score), whenever the calls are made.
C14_DetectionDeterministic ==
    (arg.fn = "detect_setups" /\ arg.df.dated)
        => \A i, j \in 1..Len(ret) : ret[i].out = ret[j].out

\* two calls on different days have returned the same setups
C14_Witness ==
    /\ arg.fn = "detect_setups"
    /\ arg.df.dated
    /\ Len(ret) = 2
    /\ ret[1].t \div Ticks(86400) # ret[2].t \div Ticks(86400)
    /\ ret[1].out # <<>>
    /\ ret[1].out = ret[2].out

C16_TargetsFromRisk ==
    (arg.fn = "calculate_targets" /\ arg.entry_price > arg.stop_loss)
        => \A i \in 1..Len(ret) :
             /\ Len(ret[i].out.targets) = Len(target_ratios)
             /\ \A k \in 1..Len(target_ratios) :
                  ret[i].out.targets[k] - arg.entry_price
                      = target_ratios[k] * (arg.entry_price - arg.stop_loss)
             /\ ret[i].out.risk_reward_ratio = target_ratios[1] * 100
             /\ (arg.entry_price = 100 /\ arg.stop_loss = 95)
                  => /\ ret[i].out.targets = <<110, 115>>
                     /\ ret[i].out.risk_reward_ratio = 200

\* the call with entry 100 and stop-loss 95 has returned
C16_Witness ==
    /\ arg.fn = "calculate_targets"
    /\ arg.entry_price = 100 /\ arg.stop_loss = 95
    /\ Len(ret) > 0
    /\ ret[1].out.targets = <<110, 115>>

\* C17: for entry above stop-loss the position size is floor(account *
\* risk_per_trade% / (entry - stop-loss)) when that many shares cost at most
\* account * max_position%, and otherwise a size whose value does not
\* exceed account * max_position%; the loss at the stop-loss never exceeds
\* account * risk_per_trade%.  For entry - stop-loss <= 0 the size is 0.
C17_PositionSize ==
    arg.fn = "calculate_position_size"
        => \A i \in 1..Len(ret) :
             LET size == ret[i].out[1].position_size
                 risk_per_share == arg.entry_price - arg.stop_loss
                 raw == (arg.account_size * risk_per_trade_percent)
                            \div risk_per_share
             IN  /\ ret[i].out # None
                 /\ risk_per_share <= 0 => size = 0
                 /\ risk_per_share > 0 =>
                      /\ size \in Nat
                      /\ raw * arg.entry_price
                           <= arg.account_size * max_position_percent
                           => size = raw
                      /\ size * arg.entry_price
                           <= arg.account_size * max_position_percent
                      /\ size * risk_per_share
                           <= arg.account_size * risk_per_trade_percent
                      /\ ret[i].out[1].position_value
                           = size * arg.entry_price

\* a position cut down by the limit on the position value
C17_Witness ==
    /\ arg.fn = "calculate_position_size"
    /\ arg.entry_price > arg.stop_loss
    /\ Len(ret) > 0
    /\ ret[1].out[1].position_size > 0
    /\ ret[1].out[1].position_size
         < (arg.account_size * risk_per_trade_percent)
               \div (arg.entry_price - arg.stop_loss)

\* C18: no record of the trade candidates of a run has an entry midpoint
\* at or below its stop-loss, or a risk per share of zero.
C18_NoDegenerateCandidate ==
    \A i \in 1..Len(st.trade_candidates) :
        /\ st.trade_candidates[i].entry_mid > st.trade_candidates[i].stop_loss
        /\ st.trade_candidates[i].risk_amount # 0

\* the risk stage has sized a setup of a frame without the ATR column
C18_Witness ==
    /\ Len(st.trade_candidates) > 0
    /\ "ATR_14" \notin st.market_data[st.trade_candidates[1].symbol].df.cols
    /\ st.trade_candidates[1].position_size > 0

\* the first answer for a setup is missing or fails the schema
Malformed(answers) ==
    \/ answers[1] = None
    \/ ~answers[1][1].json
    \/ answers[1][1].setup_quality \notin {"HIGH", "MEDIUM", "LOW"}
    \/ answers[1][1].breakout_confirmation \notin {"YES", "NO"}
    \/ answers[1][1].trend_strength \notin {"STRONG", "MODERATE", "WEAK"}
    \/ answers[1][1].confidence_score < 0
    \/ answers[1][1].confidence_score > 100

\* the records of a list for the symbol and type of a setup
RecordsOf(records, setup) ==
    SelectSeq(records, LAMBDA x : /\ x.symbol = setup.symbol
                                  /\ x.setup_type = setup.setup_type)

\* C19: a setup whose first answer is missing or fails the schema has no
\* evaluation and no trade candidate, whatever a repeated call would have
\* received; every other setup of the same call has one evaluation, with
\* the confidence of its answer, and one sized trade candidate.
C19_MalformedResponseDropsOnlyItsSetup ==
    arg.fn = "evaluate_multiple_setups"
        => \A i \in 1..Len(ret) : \A k \in 1..Len(arg.setups) :
             LET evaluations ==
                     RecordsOf(ret[i].out.evaluated_setups, arg.setups[k])
                 candidates ==
                     IF ret[i].out.trade_candidates = None THEN <<>>
                     ELSE RecordsOf(ret[i].out.trade_candidates[1],
                                    arg.setups[k])
             IN  IF Malformed(arg.answers[k])
                 THEN evaluations = <<>> /\ candidates = <<>>
                 ELSE /\ Len(evaluations) = 1
                      /\ evaluations[1].confidence_score
                           = arg.answers[k][1][1].confidence_score
                      /\ Len(candidates) = 1
                      /\ candidates[1].position_size > 0

\* the first setup had a malformed answer and a well-formed second one, the
\* other setup a well-formed answer: only the other setup is a candidate
C19_Witness ==
    /\ arg.fn = "evaluate_multiple_setups"
    /\ Len(arg.setups) = 2
    /\ Malformed(arg.answers[1])
    /\ Len(arg.answers[1]) = 2
    /\ ~Malformed(arg.answers[2])
    /\ Len(ret) > 0
    /\ Len(ret[1].out.evaluated_setups) = 1
    /\ ret[1].out.trade_candidates # None
    /\ Len(ret[1].out.trade_candidates[1]) = 1
    /\ ret[1].out.trade_candidates[1][1].setup_type
         = arg.setups[2].setup_type

\* what identifies the trade plan of a candidate or of an alert
PlanOf(records) ==
    [i \in 1..Len(records) |->
        [symbol |-> records[i].symbol, setup_type |-> records[i].setup_type,
         confidence_score |-> records[i].confidence_score]]

\* the alerts sent on one channel, in order
AlertsOn(channel) == SelectSeq(st.notifications, LAMBDA a : a.type = channel)

\* C20 as stated: every alerted trade plan has a confidence that exceeds
\* the alert threshold.
C20_AlertsOnlyAboveThreshold ==
    \A i \in 1..Len(st.notifications) :
        st.notifications[i].confidence_score > min_confidence_for_alert

\* C20, amended: a channel that is sent alerts is sent exactly the trade
\* candidates whose confidence is at least the alert threshold, in order;
\* no candidate below the threshold is alerted.
C20_AlertsAtOrAboveThreshold ==
    /\ \A i \in 1..Len(st.notifications) :
          st.notifications[i].confidence_score >= min_confidence_for_alert
    /\ \A i \in 1..Len(ChannelOrder) :
          \/ AlertsOn(ChannelOrder[i]) = <<>>
          \/ PlanOf(AlertsOn(ChannelOrder[i]))
               = PlanOf(SelectSeq(st.trade_candidates, LAMBDA c :
                     c.confidence_score >= min_confidence_for_alert))

\* of two candidates the one at the threshold was alerted and the one below
\* it was not
C20_Witness ==
    /\ Len(st.trade_candidates) = 2
    /\ st.trade_candidates[1].confidence_score = min_confidence_for_alert - 1
    /\ st.trade_candidates[2].confidence_score = min_confidence_for_alert
    /\ Len(st.notifications) = 1
    /\ st.notifications[1].setup_type = st.trade_candidates[2].setup_type

\* the trade plans of a list of candidates
TradePlans(records) ==
    [i \in 1..Len(records) |->
        [symbol |-> records[i].symbol, setup_type |-> records[i].setup_type,
         entry_range_low |-> records[i].entry_range_low,
         entry_range_high |-> records[i].entry_range_high,
         stop_loss |-> records[i].stop_loss,
         target_1 |-> records[i].target_1, target_2 |-> records[i].target_2,
         risk_reward_ratio |-> records[i].risk_reward_ratio,
         position_size |-> records[i].position_size]]

\* run j read from the cache the row that run i read or wrote
SameCachedSeries(i, j) ==
    /\ ret[i].out.source # "none"
    /\ ret[j].out.source = "cache"
    /\ ret[i].row # None
    /\ ret[i].row = ret[j].row

\* C21: two runs with the same as-of date, the same cached series and the
\* same evaluator answers produce the same trade plans, whether the first
\* of them read the series from the cache or fetched and cached it.
C21_Idempotent ==
    \A i \in 1..Len(ret) : \A j \in (i + 1)..Len(ret) :
        SameCachedSeries(i, j)
            => /\ ret[i].out.trade_candidates # None
               /\ ret[j].out.trade_candidates # None
               /\ TradePlans(ret[i].out.trade_candidates[1])
                    = TradePlans(ret[j].out.trade_candidates[1])

\* a baseline indicator of the frame is unavailable: its column is absent,
\* or its value on the latest bar is undefined
BaselineUnavailable(df) ==
    \/ ~({"EMA_50", "EMA_200", "RSI_14", "ATR_14", "ATR_Percent",
          "Volume_Ratio"} \subseteq df.cols)
    \/ NaN \in {df.ema_50, df.ema_200, df.rsi, df.atr_percent,
                 df.volume_ratio}

\* C22: detect_setups returns no setup for a frame with an unavailable
\* baseline indicator.
C22_UnavailableIndicatorBlocks ==
    arg.fn = "detect_setups"
        => \A i \in 1..Len(ret) :
             BaselineUnavailable(arg.df) => ret[i].out = <<>>

\* the ATR of the latest bar is unavailable
AtrUnavailable(df) == "ATR_14" \notin df.cols \/ df.atr = NaN

\* C23: without an ATR value calculate_stop_loss returns the entry price
\* less the floor percentage, a defined price.
C23_FloorWithoutAtr ==
    arg.fn = "calculate_stop_loss"
        => \A i \in 1..Len(ret) :
             AtrUnavailable(arg.df)
                => /\ ret[i].out # NaN
                   /\ ret[i].out
                        = (arg.entry_price * (100 - stop_loss_min_percent))
                              \div 100

\* the output fields of the stages of a run
OutputFields == {"universe", "market_data", "indicators", "detected_setups",
                 "evaluated_setups", "trade_candidates"}

\* C24: once initialize has run the error list only grows, and an output
\* field that has been assigned is not changed by any later step of the run.
C24_AppendOnlyReplaceOnce ==
    [][/\ "errors" \in st.keys => IsPrefix(st.errors, st'.errors)
       /\ \A f \in OutputFields : f \in st.keys => st'[f] = st[f]]_vars

\* C25: an empty adapter result is a failed attempt: it is not a
\* successful attempt of a retry loop, it is not returned with the
\* provenance of a source and it is not written to the cache.
C25_EmptyResultFails ==
    /\ \A i \in 1..Len(log) :
          log[i].ev = "attempt" /\ log[i].ok => log[i].val[1].bars > 0
    /\ fret.source \in {"jugaad", "yfinance"} => fret.df[1].bars > 0
    /\ \A k \in DOMAIN cache : cache[k].orig.bars > 0

IsAnyAttempt(e) == e.ev = "attempt"
Sleeps == SelectSeq(log, LAMBDA e : e.ev = "sleep")

\* C26: one call makes at most max_retries attempts on each source, every
\* primary attempt before any fallback attempt, a fallback attempt only
\* after max_retries failed primary attempts and no attempt after a
\* success; a sleep lies between two consecutive attempts on one source,
\* lasts retry_delay * backoff^attempt and never follows the last attempt
\* on a source.
C26_RetrySchedule ==
    /\ Len(AttemptsOn("jugaad")) <= max_retries
    /\ Len(AttemptsOn("yfinance")) <= max_retries
    /\ \A p, q \in 1..Len(log) :
          IsAttempt(log[p], "jugaad") /\ IsAttempt(log[q], "yfinance")
             => p < q
    /\ (\E q \in 1..Len(log) : IsAttempt(log[q], "yfinance"))
          => /\ Len(AttemptsOn("jugaad")) = max_retries
             /\ \A p \in 1..Len(log) :
                   IsAttempt(log[p], "jugaad") => ~log[p].ok
    /\ \A p, q \in 1..Len(log) :
          IsAnyAttempt(log[p]) /\ log[p].ok /\ p < q
             => ~IsAnyAttempt(log[q])
    /\ \A p \in 1..Len(log) :
          log[p].ev = "sleep"
             => /\ p > 1
                /\ IsAttempt(log[p - 1], log[p].src)
                /\ ~log[p - 1].ok
                /\ log[p - 1].n = log[p].n
                /\ log[p].n < max_retries - 1
                /\ log[p].d = Ticks(retry_delay * Pow(retry_backoff, log[p].n))
                /\ p < Len(log)
                      => /\ IsAttempt(log[p + 1], log[p].src)
                         /\ log[p + 1].n = log[p].n + 1
                         /\ log[p + 1].t - log[p - 1].t = log[p].d
    /\ fpc = "done" /\ log # <<>> => log[Len(log)].ev # "sleep"

C26_Witness ==
    /\ fpc = "done"
    /\ fret.source = "none"
    /\ Len(AttemptsOn("jugaad")) = max_retries
    /\ Len(AttemptsOn("yfinance")) = max_retries
    /\ Len(Sleeps) = 2 * (max_retries - 1)

\* the call ended with a write-through that did not fault
WroteThrough ==
    /\ fpc = "done"
    /\ fret.source \in {"jugaad", "yfinance"}
    /\ log[Len(log)].ev = "put" /\ log[Len(log)].ok

\* C27: after a call that returns a fetched series and writes it, the
\* cache holds exactly that series under the key of the call, and a later
\* call that finds the entry within its TTL returns the series that was
\* fetched, with provenance cache and without an adapter attempt.
C27_WriteThrough ==
    /\ WroteThrough
          => LET k == Key(fargs.symbol, fargs.timeframe, fargs.target_date)
             IN  /\ k \in DOMAIN cache
                 /\ from_json(cache[k].data) = fret.df
    /\ (fpc # "idle" /\ HadValidEntry)
          => /\ fret = [df |-> Some(fargs.row0[1].orig), source |-> "cache"]
             /\ \A i \in 1..Len(log) : ~IsAnyAttempt(log[i])

\* the handler of a stage catches a failure in this step
StageFails(node) == pc = node /\ failed' = Append(failed, node)

\* the stages that process their items in a loop
LoopStages == {"indicators", "detector", "risk"}

\* the bars of every fetched symbol are those of before the step
SameBars ==
    /\ DOMAIN st'.market_data = DOMAIN st.market_data
    /\ \A s \in DOMAIN st.market_data :
          [st'.market_data[s] EXCEPT !.df.cols = {}]
             = [st.market_data[s] EXCEPT !.df.cols = {}]

C29_NoCacheStillWrites ==
    (fpc # "idle" /\ ~fargs.use_cache)
        => LET k == Key(fargs.symbol, fargs.timeframe, fargs.target_date)
           IN  /\ \A i \in 1..Len(log) : log[i].ev # "get"
               /\ fret.source # "cache"
               /\ (fpc = "done" /\ fret.source \in {"jugaad", "yfinance"})
                     => log[Len(log)].ev = "put"
               /\ WroteThrough
                     => /\ k \in DOMAIN cache
                        /\ cache[k] = [data |-> to_json(fret.df[1]),
                                       cached_at |-> log[Len(log)].t,
                                       orig |-> fret.df[1]]
               /\ (fpc = "done" /\ ~WroteThrough)
                     => /\ k \in DOMAIN cache <=> fargs.row0 # None
                        /\ fargs.row0 # None
                              => cache[k].orig = fargs.row0[1].orig

C29_Witness ==
    /\ ~fargs.use_cache
    /\ WroteThrough
    /\ fargs.row0 # None
    /\ fargs.row0[1].data.ok
    /\ fargs.t0 - fargs.row0[1].cached_at < Ticks(cache_ttl_daily)
    /\ fargs.row0[1].orig # fret.df[1]
    /\ cache[Key(fargs.symbol, fargs.timeframe, fargs.target_date)].orig
          = fret.df[1]

\* C30: only the persist stage writes the run record; unless the database
\* faults it writes one record, with or without setups, whose status is
\* success when the error list is empty at that moment and partial
\* otherwise; no later step changes the record.
C30_RunRecordStatus ==
    [][/\ pc # "persister" => agent_runs' = agent_runs
       /\ (pc = "persister" /\ failed' # failed) => agent_runs' = agent_runs
       /\ (pc = "persister" /\ failed' = failed)
             => /\ Len(agent_runs') = Len(agent_runs) + 1
                /\ SubSeq(agent_runs', 1, Len(agent_runs)) = agent_runs
                /\ LET r == agent_runs'[Len(agent_runs')]
                   IN  /\ r.scan_id = st.scan_id
                       /\ r.setups_detected = Len(st.detected_setups)
                       /\ r.error_message = st.errors
                       /\ r.status = IF st.errors = <<>> THEN "success"
                                     ELSE "partial"]_vars

\* a run without setups whose only failure is the one of the notify stage
C30_Witness ==
    /\ pc = "END"
    /\ st.detected_setups = <<>>
    /\ st.errors = <<"Notification failed">>
    /\ Len(agent_runs) = 1
    /\ agent_runs[1].status = "success"
    /\ agent_runs[1].setups_detected = 0
====
